---- MODULE Spec2Model ----
(***************************************************************************)
(* Alerting rules engine of birdnet-go (package internal/alerting):        *)
(* the metric tracker, the condition evaluator, the cooldown-aware engine  *)
(* and the asynchronous alert event bus.                                   *)
(*                                                                         *)
(* Time is counted in whole seconds.  Strings that the code inspects       *)
(* character by character (condition values, string properties) are        *)
(* sequences of one-character strings; strings that are only compared for  *)
(* equality (object types, event names, metric names, operators) are       *)
(* TLA+ strings.  float64 values are integers.                             *)
(***************************************************************************)
EXTENDS Integers, Sequences, FiniteSets, TLC

(***************************************************************************)
(* Program constants.                                                      *)
(***************************************************************************)
maxSamplesPerMetric == 120

maxSampleAge == 1800

eventBusBufferSize == 1000

OperatorIs == "is"
OperatorIsNot == "is_not"
OperatorContains == "contains"
OperatorNotContains == "not_contains"
OperatorGreaterThan == "greater_than"
OperatorLessThan == "less_than"
OperatorGreaterOrEqual == "greater_or_equal"
OperatorLessOrEqual == "less_or_equal"

TriggerTypeEvent == "event"
TriggerTypeMetric == "metric"

PropertyValue == "value"
PropertySpeciesName == "species_name"

ObjectTypeStream == "stream"
ObjectTypeSystem == "system"
ObjectTypeDetection == "detection"

EventStreamDisconnected == "stream.disconnected"
EventStreamConnected == "stream.connected"
EventDetectionNewSpecies == "detection.new_species"

MetricCPUUsage == "system.cpu_usage"
MetricMemoryUsage == "system.memory_usage"

TargetBell == "bell"

(***************************************************************************)
(* Bounds of the model.                                                    *)
(***************************************************************************)
\* number of Record calls explored by the tracker specifications
MaxRecords == 3
\* the engine's clock runs from 0 to MaxTime
MaxTime == 2
\* number of HandleEvent calls explored
MaxEvents == 2
\* number of RefreshRules calls explored
MaxRefresh == 1
\* number of Publish calls explored on the bus
MaxPublish == 3

MaxHandlers == 2

MaxStop == 2

MaxQueue == 2

CapRecords == 123

NoValue == [kind |-> "none"]

(***************************************************************************)
(* Strings as character sequences: strconv.ParseFloat, fmt.Sprintf("%v"),  *)
(* strings.ToLower, strings.EqualFold, strings.Contains.                   *)
(***************************************************************************)
Digits == <<"0", "1", "2", "3", "4", "5", "6", "7", "8", "9">>

\* unicode.ToLower on the letters of the model; "I_dot" stands for U+0130
\* (capital I with dot above), "dotless_i" for U+0131 and "long_s" for U+017F,
\* which have no lower-case mapping of their own
LowerOf ==
    [c \in {"A", "B", "R", "I", "S", "I_dot"} |->
        CASE c = "A" -> "a" [] c = "B" -> "b" [] c = "R" -> "r"
          [] c = "I" -> "i" [] c = "S" -> "s" [] c = "I_dot" -> "i"]

\* unicode.ToUpper on the letters of the model
UpperOf ==
    [c \in {"a", "b", "r", "i", "s", "dotless_i", "long_s"} |->
        CASE c = "a" -> "A" [] c = "b" -> "B" [] c = "r" -> "R"
          [] c = "i" -> "I" [] c = "s" -> "S" [] c = "dotless_i" -> "I" [] c = "long_s" -> "S"]

\* unicode.SimpleFold: the orbit of a character under simple case folding;
\* U+0130 and U+0131 fold to themselves only
FoldOrbit(c) ==
    CASE c \in {"A", "a"} -> {"A", "a"}
      [] c \in {"B", "b"} -> {"B", "b"}
      [] c \in {"R", "r"} -> {"R", "r"}
      [] c \in {"I", "i"} -> {"I", "i"}
      [] c \in {"S", "s", "long_s"} -> {"S", "s", "long_s"}
      [] OTHER -> {c}

IsDigit(c) == \E i \in 1..10 : Digits[i] = c

DigitVal(c) == (CHOOSE i \in 1..10 : Digits[i] = c) - 1

RECURSIVE DigitsValue(_)
DigitsValue(s) ==
    IF s = <<>> THEN 0
    ELSE 10 * DigitsValue(SubSeq(s, 1, Len(s) - 1)) + DigitVal(s[Len(s)])

\* strconv.ParseFloat on the strings of the model: an optional sign followed
\* by one or more decimal digits parses, anything else is an error.
ParseFloat(s) ==
    LET neg  == s # <<>> /\ Head(s) = "-"
        body == IF neg THEN Tail(s) ELSE s
    IN  IF body # <<>> /\ \A i \in 1..Len(body) : IsDigit(body[i])
        THEN [ok |-> TRUE, v |-> IF neg THEN 0 - DigitsValue(body) ELSE DigitsValue(body)]
        ELSE [ok |-> FALSE, v |-> 0]

RECURSIVE FormatNat(_)
FormatNat(n) ==
    IF n < 10 THEN <<Digits[n + 1]>>
    ELSE FormatNat(n \div 10) \o <<Digits[(n % 10) + 1]>>

FormatInt(n) == IF n < 0 THEN <<"-">> \o FormatNat(0 - n) ELSE FormatNat(n)

ToLower(s) == [i \in 1..Len(s) |-> IF s[i] \in DOMAIN LowerOf THEN LowerOf[s[i]] ELSE s[i]]

ToUpper(s) == [i \in 1..Len(s) |-> IF s[i] \in DOMAIN UpperOf THEN UpperOf[s[i]] ELSE s[i]]

\* strings.EqualFold: equal length and, character by character, the same orbit
EqualFold(a, b) ==
    /\ Len(a) = Len(b)
    /\ \A i \in 1..Len(a) : b[i] \in FoldOrbit(a[i])

Contains(s, sub) ==
    \E i \in 0..(Len(s) - Len(sub)) : SubSeq(s, i + 1, i + Len(sub)) = sub

\* fmt.Sprintf("%v", propVal)
Sprintv(val) ==
    CASE val.kind = "float64" -> FormatInt(val.num)
      [] val.kind = "int"     -> FormatInt(val.num)
      [] val.kind = "string"  -> val.str
      [] val.kind = "bool"    -> IF val.b THEN <<"t", "r", "u", "e">> ELSE <<"f", "a", "l", "s", "e">>

toFloat64(val) ==
    CASE val.kind = "float64" -> [ok |-> TRUE, v |-> val.num]
      [] val.kind = "int"     -> [ok |-> TRUE, v |-> val.num]
      [] val.kind = "string"  -> ParseFloat(val.str)
      [] OTHER                -> [ok |-> FALSE, v |-> 0]

F64(n) == [kind |-> "float64", num |-> n]
Str(s) == [kind |-> "string", str |-> s]
Bool(b) == [kind |-> "bool", b |-> b]

(***************************************************************************)
(* Condition evaluator.                                                    *)
(***************************************************************************)
evaluateNumeric(operator, propVal, condVal) ==
    LET p == toFloat64(propVal)
        c == ParseFloat(condVal)
    IN  IF ~p.ok THEN FALSE
        ELSE IF ~c.ok THEN FALSE
        ELSE CASE operator = OperatorGreaterThan    -> p.v > c.v
               [] operator = OperatorLessThan       -> p.v < c.v
               [] operator = OperatorGreaterOrEqual -> p.v >= c.v
               [] operator = OperatorLessOrEqual    -> p.v <= c.v
               [] OTHER                             -> FALSE

\* faulty variant: a missing property is compared as the empty string
evaluateConditionMissingAsEmpty(cond, properties) ==
    LET propVal == IF cond.Property \in DOMAIN properties
                   THEN properties[cond.Property] ELSE Str(<<>>)
        propStr == Sprintv(propVal)
        condVal == cond.Value
    IN  CASE cond.Operator = OperatorIs          -> EqualFold(propStr, condVal)
          [] cond.Operator = OperatorIsNot       -> ~EqualFold(propStr, condVal)
          [] cond.Operator = OperatorContains    -> Contains(ToLower(propStr), ToLower(condVal))
          [] cond.Operator = OperatorNotContains -> ~Contains(ToLower(propStr), ToLower(condVal))
          [] cond.Operator \in {OperatorGreaterThan, OperatorLessThan,
                                OperatorGreaterOrEqual, OperatorLessOrEqual}
                                                 -> evaluateNumeric(cond.Operator, propVal, condVal)
          [] OTHER                               -> FALSE

\* properties is a function from the property names present to their values
evaluateCondition(cond, properties) ==
    IF cond.Property \notin DOMAIN properties THEN FALSE
    ELSE LET propVal == properties[cond.Property]
             propStr == Sprintv(propVal)
             condVal == cond.Value
         IN  CASE cond.Operator = OperatorIs          -> EqualFold(propStr, condVal)
               [] cond.Operator = OperatorIsNot       -> ~EqualFold(propStr, condVal)
               [] cond.Operator = OperatorContains    -> Contains(ToLower(propStr), ToLower(condVal))
               [] cond.Operator = OperatorNotContains -> ~Contains(ToLower(propStr), ToLower(condVal))
               [] cond.Operator \in {OperatorGreaterThan, OperatorLessThan,
                                     OperatorGreaterOrEqual, OperatorLessOrEqual}
                                                      -> evaluateNumeric(cond.Operator, propVal, condVal)
               [] OTHER                               -> FALSE

\* faulty variant: one matching condition is enough
RECURSIVE EvaluateConditionsAny(_, _)
EvaluateConditionsAny(conditions, properties) ==
    IF conditions = <<>> THEN TRUE
    ELSE IF evaluateCondition(Head(conditions), properties) THEN TRUE
    ELSE Tail(conditions) # <<>> /\ EvaluateConditionsAny(Tail(conditions), properties)

\* the loop returns false at the first condition that does not match
RECURSIVE EvaluateConditions(_, _)
EvaluateConditions(conditions, properties) ==
    IF conditions = <<>> THEN TRUE
    ELSE IF ~evaluateCondition(Head(conditions), properties) THEN FALSE
    ELSE EvaluateConditions(Tail(conditions), properties)

(***************************************************************************)
(* Metric tracker.                                                         *)
(***************************************************************************)
MetricNames == {MetricCPUUsage, MetricMemoryUsage}

\* faulty variant: an operator that is not known compares as true
compareFloatDefaultTrue(value, operator, threshold) ==
    CASE operator = OperatorGreaterThan    -> value > threshold
      [] operator = OperatorLessThan       -> value < threshold
      [] operator = OperatorGreaterOrEqual -> value >= threshold
      [] operator = OperatorLessOrEqual    -> value <= threshold
      [] OTHER                             -> TRUE

compareFloat(value, operator, threshold) ==
    CASE operator = OperatorGreaterThan    -> value > threshold
      [] operator = OperatorLessThan       -> value < threshold
      [] operator = OperatorGreaterOrEqual -> value >= threshold
      [] operator = OperatorLessOrEqual    -> value <= threshold
      [] OTHER                             -> FALSE

\* the loop "for start < len(samples) && samples[start].timestamp.Before(cutoff)"
RECURSIVE EvictFront(_, _)
EvictFront(samples, cutoff) ==
    IF samples # <<>> /\ Head(samples).timestamp < cutoff
    THEN EvictFront(Tail(samples), cutoff)
    ELSE samples

\* faulty variant: the cap keeps the oldest samples
CapBufferKeepOldest(samples) ==
    IF Len(samples) > maxSamplesPerMetric
    THEN SubSeq(samples, 1, maxSamplesPerMetric)
    ELSE samples

CapBuffer(samples) ==
    IF Len(samples) > maxSamplesPerMetric
    THEN SubSeq(samples, Len(samples) - maxSamplesPerMetric + 1, Len(samples))
    ELSE samples

\* MetricTracker.Record: the buffers after the call
Record(bufs, metricName, value, timestamp) ==
    LET appended == Append(bufs[metricName], [value |-> value, timestamp |-> timestamp])
        cutoff   == timestamp - maxSampleAge
    IN  [bufs EXCEPT ![metricName] = CapBuffer(EvictFront(appended, cutoff))]

\* the samples of the buffer within [now - duration, now], in buffer order
InWindow(samples, duration, now) ==
    LET windowStart == now - duration
        In(s) == ~(s.timestamp < windowStart) /\ ~(s.timestamp > now)
    IN  SelectSeq(samples, In)

\* faulty variant: the coverage (grace) check is left out
IsSustainedNoCoverage(bufs, metricName, operator, value, duration, now) ==
    LET samples   == bufs[metricName]
        threshold == ParseFloat(value)
        inWindow  == InWindow(samples, duration, now)
    IN  /\ samples # <<>>
        /\ threshold.ok
        /\ inWindow # <<>>
        /\ \A i \in 1..Len(inWindow) : compareFloat(inWindow[i].value, operator, threshold.v)

\* faulty variant: only the newest sample of the window is compared
IsSustainedLastOnly(bufs, metricName, operator, value, duration, now) ==
    LET samples     == bufs[metricName]
        threshold   == ParseFloat(value)
        windowStart == now - duration
        inWindow    == InWindow(samples, duration, now)
        grace       == duration \div 5
    IN  /\ samples # <<>>
        /\ threshold.ok
        /\ inWindow # <<>>
        /\ ~(inWindow[1].timestamp > windowStart + grace)
        /\ compareFloat(inWindow[Len(inWindow)].value, operator, threshold.v)

\* MetricTracker.IsSustained.  duration / 5 is Go's integer division of the
\* duration; on whole-second timestamps comparing against the truncated
\* quotient decides the same as comparing against the exact one.
IsSustained(bufs, metricName, operator, value, duration, now) ==
    LET samples     == bufs[metricName]
        threshold   == ParseFloat(value)
        windowStart == now - duration
        inWindow    == InWindow(samples, duration, now)
        grace       == duration \div 5
    IN  IF samples = <<>> THEN FALSE
        ELSE IF ~threshold.ok THEN FALSE
        ELSE IF inWindow = <<>> THEN FALSE
        ELSE IF inWindow[1].timestamp > windowStart + grace THEN FALSE
        ELSE \A i \in 1..Len(inWindow) : compareFloat(inWindow[i].value, operator, threshold.v)

(***************************************************************************)
(* Rules and events of the model.                                          *)
(***************************************************************************)
Str80 == <<"8", "0">>

NoProperties == [p \in {} |-> NoValue]

Props(name, val) == [p \in {name} |-> val]

\* event rule, cooldown of 2 s, no conditions
RuleStream ==
    [ID |-> 1, ObjectType |-> ObjectTypeStream, TriggerType |-> TriggerTypeEvent,
     EventName |-> EventStreamDisconnected, MetricName |-> "", CooldownSec |-> 2,
     Conditions |-> <<>>, Actions |-> <<[Target |-> TargetBell]>>]

\* the same trigger with a cooldown of 1 s
RuleStreamShort ==
    [ID |-> 2, ObjectType |-> ObjectTypeStream, TriggerType |-> TriggerTypeEvent,
     EventName |-> EventStreamDisconnected, MetricName |-> "", CooldownSec |-> 1,
     Conditions |-> <<>>, Actions |-> <<[Target |-> TargetBell]>>]

\* instantaneous metric threshold, no cooldown
RuleCPU ==
    [ID |-> 3, ObjectType |-> ObjectTypeSystem, TriggerType |-> TriggerTypeMetric,
     EventName |-> "", MetricName |-> MetricCPUUsage, CooldownSec |-> 0,
     Conditions |-> <<[Property |-> PropertyValue, Operator |-> OperatorGreaterThan,
                       Value |-> Str80, DurationSec |-> 0]>>,
     Actions |-> <<[Target |-> TargetBell]>>]

\* metric threshold sustained over 2 s, negative cooldown
RuleCPUSustained ==
    [ID |-> 4, ObjectType |-> ObjectTypeSystem, TriggerType |-> TriggerTypeMetric,
     EventName |-> "", MetricName |-> MetricCPUUsage, CooldownSec |-> -1,
     Conditions |-> <<[Property |-> PropertyValue, Operator |-> OperatorGreaterThan,
                       Value |-> Str80, DurationSec |-> 2]>>,
     Actions |-> <<[Target |-> TargetBell]>>]

AllRules == {RuleStream, RuleStreamShort, RuleCPU, RuleCPUSustained}

RuleIDs == {r.ID : r \in AllRules}

RuleByID(id) == CHOOSE r \in AllRules : r.ID = id

\* what the repository's GetEnabledRules can return
RuleLists ==
    { <<RuleStream, RuleStreamShort>>,
      <<RuleCPU, RuleCPUSustained>> }

Event(obj, evn, met, props, ts) ==
    [ObjectType |-> obj, EventName |-> evn, MetricName |-> met,
     Properties |-> props, Timestamp |-> ts]

\* the events a caller can hand to HandleEvent when the clock shows t
EventsAt(t) ==
    { Event(ObjectTypeStream, EventStreamDisconnected, "", NoProperties, t),
      Event(ObjectTypeStream, EventStreamConnected, "", NoProperties, t),
      Event("nonexistent", "unknown_event", "", NoProperties, t) }
    \cup
    { Event(ObjectTypeSystem, "", MetricCPUUsage, Props(PropertyValue, v), t) :
        v \in {F64(85), F64(70)} }
    \cup
    { Event(ObjectTypeSystem, "", MetricCPUUsage, Props(PropertyValue, Str(<<"a", "b">>)), t),
      Event(ObjectTypeSystem, "", MetricMemoryUsage, Props(PropertyValue, F64(85)), t),
      Event(ObjectTypeStream, "", MetricCPUUsage, Props(PropertyValue, F64(85)), t) }

NoEvent == Event("", "", "", NoProperties, 0)

(***************************************************************************)
(* Engine: the pure parts of HandleEvent.                                  *)
(***************************************************************************)
defaultCooldownSec == 300

\* faulty variant: the sample is recorded by HandleEvent and again while matching
RecordEventTwice(bufs, event) ==
    IF event.MetricName # "" /\ PropertyValue \in DOMAIN event.Properties
       /\ toFloat64(event.Properties[PropertyValue]).ok
    THEN LET v == toFloat64(event.Properties[PropertyValue]).v
         IN  Record(Record(bufs, event.MetricName, v, event.Timestamp),
                    event.MetricName, v, event.Timestamp)
    ELSE bufs

\* HandleEvent, lines 73-79: the buffers after the metric sample is recorded
RecordEvent(bufs, event) ==
    IF event.MetricName # ""
    THEN IF PropertyValue \in DOMAIN event.Properties
         THEN LET floatVal == toFloat64(event.Properties[PropertyValue])
              IN  IF floatVal.ok
                  THEN Record(bufs, event.MetricName, floatVal.v, event.Timestamp)
                  ELSE bufs
         ELSE bufs
    ELSE bufs

\* faulty variant: every condition is decided on the event's properties
evaluateMetricConditionsInstantOnly(rule, event, bufs) ==
    \A i \in 1..Len(rule.Conditions) : evaluateCondition(rule.Conditions[i], event.Properties)

evaluateMetricConditions(rule, event, bufs) ==
    \A i \in 1..Len(rule.Conditions) :
        LET cond == rule.Conditions[i]
        IN  IF cond.DurationSec > 0
            THEN IsSustained(bufs, rule.MetricName, cond.Operator, cond.Value,
                             cond.DurationSec, event.Timestamp)
            ELSE evaluateCondition(cond, event.Properties)

\* faulty variant: the object type is not compared
ruleMatchesAnyObject(rule, event, bufs) ==
    CASE rule.TriggerType = TriggerTypeEvent ->
            rule.EventName = event.EventName
            /\ EvaluateConditions(rule.Conditions, event.Properties)
      [] rule.TriggerType = TriggerTypeMetric ->
            rule.MetricName = event.MetricName
            /\ evaluateMetricConditions(rule, event, bufs)
      [] OTHER -> FALSE

ruleMatches(rule, event, bufs) ==
    IF rule.ObjectType # event.ObjectType THEN FALSE
    ELSE CASE rule.TriggerType = TriggerTypeEvent ->
                 IF rule.EventName # event.EventName THEN FALSE
                 ELSE EvaluateConditions(rule.Conditions, event.Properties)
           [] rule.TriggerType = TriggerTypeMetric ->
                 IF rule.MetricName # event.MetricName THEN FALSE
                 ELSE evaluateMetricConditions(rule, event, bufs)
           [] OTHER -> FALSE

\* faulty variant: a rule still counts as cooling down when exactly cooldownSec have passed
isInCooldownInclusive(cds, ruleID, cooldownSec, clock) ==
    IF cooldownSec <= 0 THEN FALSE
    ELSE IF ruleID \notin DOMAIN cds THEN FALSE
    ELSE clock - cds[ruleID] <= cooldownSec

\* faulty variant: a cooldown that is not positive is replaced by the column default
isInCooldownDefaulted(cds, ruleID, cooldownSec, clock) ==
    LET cd == IF cooldownSec <= 0 THEN defaultCooldownSec ELSE cooldownSec
    IN  IF ruleID \notin DOMAIN cds THEN FALSE
        ELSE clock - cds[ruleID] < cd

\* Engine.isInCooldown; clock is the value time.Since reads
isInCooldown(cds, ruleID, cooldownSec, clock) ==
    IF cooldownSec <= 0 THEN FALSE
    ELSE IF ruleID \notin DOMAIN cds THEN FALSE
    ELSE clock - cds[ruleID] < cooldownSec

\* the Go map update m[k] = v
MapSet(m, k, v) == [i \in DOMAIN m \cup {k} |-> IF i = k THEN v ELSE m[i]]

(***************************************************************************)
(* State.                                                                  *)
(***************************************************************************)
Threads == {1, 2}

VARIABLES
    now,        \* the wall clock read by time.Now() / time.Since()
    buffers,    \* MetricTracker.buffers: metric name -> samples
    lastCheck,  \* the last direct IsSustained call and its result
    nRecords,   \* number of direct Record calls made
    rules,      \* Engine.rules: the cached rule list
    cooldowns,  \* Engine.cooldowns: rule ID -> last fired time (a map)
    repoRules,  \* repository: the enabled rules
    history,    \* repository: the saved AlertHistory rows, counted per RuleID
    pc,         \* per thread: position in HandleEvent / RefreshRules
    ev,         \* per thread: the event HandleEvent was called with
    snap,       \* per thread: HandleEvent's copy of the rule list / RefreshRules' query result
    idx,        \* per thread: loop index into snap
    nEvents,    \* number of HandleEvent calls made
    nRefresh,   \* number of RefreshRules calls made
    matchCalls, \* per rule ID: evaluations in which ruleMatches returned true
    cdSets,     \* per rule ID: cooldown updates by fireRule
    saveCalls,  \* per rule ID: SaveHistory calls (failed ones included)
    saveFails,  \* per rule ID: SaveHistory calls that returned an error
    dispCalls,  \* per rule ID: calls of the action function (dispatcher)
    handlers,   \* AlertEventBus.handlers, in registration order
    eventCh,    \* AlertEventBus.eventCh: the buffered channel
    stopCh,     \* AlertEventBus.stopCh: TRUE once closed
    stopOnce,   \* AlertEventBus.stopOnce: TRUE once its function has run
    wpc,        \* processLoop: position of the worker goroutine
    draining,   \* processLoop: TRUE once the worker has seen stopCh closed
    cur,        \* processLoop: the event being dispatched
    hsnap,      \* dispatch: its copy of the handler list
    hidx,       \* dispatch: loop index into hsnap
    pubPc,      \* per publisher: position in Publish
    pubEv,      \* per publisher: the event Publish was called with
    nPublish,   \* number of Publish calls made
    nStop,      \* number of AlertEventBus.Stop calls made
    enqueued,   \* IDs of the events sent on eventCh, in order
    delivered   \* the handler invocations made by safeCall, in order

trackerVars == <<buffers, lastCheck, nRecords>>

engineVars == <<rules, cooldowns, repoRules, history, pc, ev, snap, idx, nEvents,
                nRefresh, matchCalls, cdSets, saveCalls, saveFails, dispCalls>>

busVars == <<handlers, eventCh, stopCh, stopOnce, wpc, draining, cur, hsnap, hidx,
             pubPc, pubEv, nPublish, nStop, enqueued, delivered>>

VARIABLES
    cleanupStop, \* Engine.cleanupStop: the channel installed, 0 for nil
    closes,      \* per channel made by StartHistoryCleanup: the close() calls on it
    tasks,       \* per channel: the cleanup goroutine selecting on it
    kpc,         \* per thread: position in StartHistoryCleanup / Stop
    kch,         \* per thread: the local ch (stopCleanup) or stopCh (StartHistoryCleanup)
    kret,        \* per thread: the retentionDays argument
    nStart,      \* number of StartHistoryCleanup calls made
    nEngineStop, \* number of Engine.Stop calls made
    lastStart,   \* the StartHistoryCleanup call that returned last: its retentionDays
    deleteCalls  \* number of DeleteHistoryBefore calls made by cleanup goroutines

cleanupVars == <<cleanupStop, closes, tasks, kpc, kch, kret, nStart, nEngineStop,
                 lastStart, deleteCalls>>

VARIABLES
    lstack,      \* per thread: the call stack, each frame a function and the next step in it
    held         \* per thread: the locks it holds, each with its mode

lockVars == <<lstack, held>>

VARIABLES
    testCalls    \* per rule ID: TestFireRule calls made

testVars == <<testCalls>>

VARIABLES
    ipc,               \* position of the Initialize call
    repoNames,         \* repository: the names of the stored rules
    seedExisting,      \* seedDefaultRules: existingNames
    seedIdx,           \* seedDefaultRules: loop index into the defaults
    created,           \* seedDefaultRules: created
    initFailed,        \* TRUE once a repository call of Initialize returned an error
    initResult,        \* what Initialize returned
    globalAlertBus,    \* the package-level singleton: TRUE once set to the bus
    alertEngineActive, \* notification.alertEngineActive
    bridgeRegistered   \* TRUE once the detection bridge is a consumer of the event bus

initVars == <<ipc, repoNames, seedExisting, seedIdx, created, initFailed, initResult,
              globalAlertBus, alertEngineActive, bridgeRegistered>>

VARIABLES
    lastEval     \* the last direct evaluation of a condition list and its results

evalVars == <<lastEval>>

VARIABLES
    notifCreator, \* ActionDispatcher.notifCreator: "unset" before construction, "nil" or "set"
    dpc,          \* position of the Dispatch call
    drule,        \* Dispatch: the rule argument
    devent,       \* Dispatch: the event argument
    didx,         \* Dispatch: loop index into rule.Actions
    dcalls,       \* the CreateAndBroadcast calls received during the Dispatch call
    warned,       \* the actions logged as unknown targets during the Dispatch call
    nDispatch     \* number of Dispatch calls made

dispVars == <<notifCreator, dpc, drule, devent, didx, dcalls, warned, nDispatch>>

VARIABLES
    seedRuns,      \* number of process starts that have called seedDefaultRules
    seedFirst,     \* repository: the names stored when seedDefaultRules first ran
    createdBefore  \* CreateRule calls that succeeded in the earlier runs of seedDefaultRules

seedVars == <<seedRuns, seedFirst, createdBefore>>

extVars == <<cleanupVars, lockVars, testVars, initVars, evalVars, dispVars, seedVars>>

vars == <<now, trackerVars, engineVars, busVars, extVars>>

\* no StartHistoryCleanup call has returned yet
NoStart == [returned |-> FALSE, retentionDays |-> 0]

InitCleanup ==
    /\ cleanupStop = 0
    /\ closes = <<>>
    /\ tasks = <<>>
    /\ kpc = [t \in Threads |-> "idle"]
    /\ kch = [t \in Threads |-> 0]
    /\ kret = [t \in Threads |-> 0]
    /\ nStart = 0
    /\ nEngineStop = 0
    /\ lastStart = NoStart
    /\ deleteCalls = 0

InitLocks ==
    /\ lstack = [t \in Threads |-> <<>>]
    /\ held = [t \in Threads |-> {}]

InitTest ==
    /\ testCalls = [i \in RuleIDs |-> 0]

\* Initialize has not returned
NoResult == [returned |-> FALSE, engine |-> FALSE, err |-> FALSE]

InitStartup ==
    /\ ipc = "idle"
    /\ repoNames = {}
    /\ seedExisting = {}
    /\ seedIdx = 0
    /\ created = 0
    /\ initFailed = FALSE
    /\ initResult = NoResult
    /\ globalAlertBus = FALSE
    /\ alertEngineActive = FALSE
    /\ bridgeRegistered = FALSE

NoEval == [called |-> FALSE]

InitEval ==
    /\ lastEval = NoEval

\* no rule is being dispatched
NoRule == [ID |-> 0, Name |-> <<>>, Actions |-> <<>>]

InitDispatcher ==
    /\ notifCreator = "unset"
    /\ dpc = "idle"
    /\ drule = NoRule
    /\ devent = NoEvent
    /\ didx = 0
    /\ dcalls = <<>>
    /\ warned = <<>>
    /\ nDispatch = 0

InitSeed ==
    /\ seedRuns = 0
    /\ seedFirst = {}
    /\ createdBefore = 0

InitExt ==
    /\ InitCleanup
    /\ InitLocks
    /\ InitTest
    /\ InitStartup
    /\ InitEval
    /\ InitDispatcher
    /\ InitSeed

Publishers == {1, 2}

\* the zero time.Time
ZeroTime == -1

NoBusEvent == [id |-> 0, Timestamp |-> ZeroTime]

NoCheck == [called |-> FALSE]

Init ==
    /\ now = 0
    /\ buffers = [m \in MetricNames |-> <<>>]
    /\ lastCheck = NoCheck
    /\ nRecords = 0
    /\ rules = <<>>
    /\ cooldowns = [i \in {} |-> 0]
    /\ repoRules = <<>>
    /\ history = [i \in RuleIDs |-> 0]
    /\ pc = [t \in Threads |-> "idle"]
    /\ ev = [t \in Threads |-> NoEvent]
    /\ snap = [t \in Threads |-> <<>>]
    /\ idx = [t \in Threads |-> 0]
    /\ nEvents = 0
    /\ nRefresh = 0
    /\ matchCalls = [i \in RuleIDs |-> 0]
    /\ cdSets = [i \in RuleIDs |-> 0]
    /\ saveCalls = [i \in RuleIDs |-> 0]
    /\ saveFails = [i \in RuleIDs |-> 0]
    /\ dispCalls = [i \in RuleIDs |-> 0]
    /\ handlers = <<>>
    /\ eventCh = <<>>
    /\ stopCh = FALSE
    /\ stopOnce = FALSE
    /\ wpc = "select"
    /\ draining = FALSE
    /\ cur = NoBusEvent
    /\ hsnap = <<>>
    /\ hidx = 0
    /\ pubPc = [p \in Publishers |-> "idle"]
    /\ pubEv = [p \in Publishers |-> NoBusEvent]
    /\ nPublish = 0
    /\ nStop = 0
    /\ enqueued = <<>>
    /\ delivered = <<>>
    /\ InitExt

(***************************************************************************)
(* Direct use of the metric tracker.                                       *)
(***************************************************************************)
TrackerStamps == {0, 2, 5, 10}

TrackerValues == {70, 85}

TrackerDurations == {0, 5, 10}

TrackerRecord(m, v, ts) ==
    /\ nRecords < MaxRecords
    /\ nRecords' = nRecords + 1
    /\ buffers' = Record(buffers, m, v, ts)
    /\ UNCHANGED <<busVars, extVars, now, lastCheck, engineVars>>

TrackerIsSustained(m, op, value, duration, t) ==
    /\ lastCheck' = [called |-> TRUE, metric |-> m, operator |-> op, value |-> value,
                     duration |-> duration, now |-> t, samples |-> buffers[m],
                     result |-> IsSustained(buffers, m, op, value, duration, t)]
    /\ UNCHANGED <<busVars, extVars, now, buffers, nRecords, engineVars>>

NextTracker ==
    \/ \E v \in TrackerValues, ts \in TrackerStamps :
          TrackerRecord(MetricCPUUsage, v, ts)
    \/ \E m \in MetricNames, op \in {OperatorGreaterThan, OperatorLessOrEqual},
          d \in TrackerDurations, t \in {5, 10} :
          TrackerIsSustained(m, op, Str80, d, t)

SpecTracker == Init /\ [][NextTracker]_vars

(***************************************************************************)
(* The sustained-threshold scenario: one sample of 85.0 every 5 seconds,   *)
(* recorded in time order, and at most one further sample of 70.0 recorded *)
(* at any moment with any timestamp of the 60 s window.                    *)
(***************************************************************************)
\* number of regular samples (65 seconds at one sample per 5 seconds)
ScenarioSamples == 14

ScenarioInterval == 5

ScenarioDuration == 60

ScenarioNow == (ScenarioSamples - 1) * ScenarioInterval

ScenarioRecord ==
    /\ nRecords < ScenarioSamples
    /\ nRecords' = nRecords + 1
    /\ buffers' = Record(buffers, MetricCPUUsage, 85, nRecords * ScenarioInterval)
    /\ UNCHANGED <<busVars, extVars, now, lastCheck, engineVars>>

ScenarioDip(ts) ==
    /\ Len(buffers[MetricCPUUsage]) = nRecords
    /\ buffers' = Record(buffers, MetricCPUUsage, 70, ts)
    /\ UNCHANGED <<busVars, extVars, now, lastCheck, nRecords, engineVars>>

NextSustained ==
    \/ ScenarioRecord
    \/ \E ts \in (ScenarioNow - ScenarioDuration)..ScenarioNow : ScenarioDip(ts)
    \/ \E op \in {OperatorGreaterThan, OperatorLessOrEqual} :
          TrackerIsSustained(MetricCPUUsage, op, Str80, ScenarioDuration, ScenarioNow)

SpecSustained == Init /\ [][NextSustained]_vars

(***************************************************************************)
(* Properties of the metric tracker.                                       *)
(***************************************************************************)
\* the indices of the samples of the last check that lie in its window
CheckWindow ==
    {i \in 1..Len(lastCheck.samples) :
        /\ lastCheck.samples[i].timestamp >= lastCheck.now - lastCheck.duration
        /\ lastCheck.samples[i].timestamp <= lastCheck.now}

\* the comparison a sample has to satisfy, against the threshold 80
Satisfies80(v, op) ==
    \/ op = OperatorGreaterThan /\ v > 80
    \/ op = OperatorLessOrEqual /\ v <= 80

RegularSamples ==
    [i \in 1..ScenarioSamples |-> [value |-> 85, timestamp |-> (i - 1) * ScenarioInterval]]

\* C9: IsSustained returns true only if every stored sample with a timestamp
\* in [now - duration, now] satisfies the comparison; on the samples of 85.0
\* every 5 seconds for 65 seconds ending at now, greater_than "80" over 60 s
\* is true, and with one sample of 70.0 more in the window it is false.
SustainedOnlyIfAllSatisfy ==
    lastCheck.called =>
        /\ lastCheck.result =>
              \A i \in CheckWindow : Satisfies80(lastCheck.samples[i].value, lastCheck.operator)
        /\ (lastCheck.samples = RegularSamples /\ lastCheck.operator = OperatorGreaterThan)
              => lastCheck.result
        /\ (/\ lastCheck.operator = OperatorGreaterThan
            /\ Len(lastCheck.samples) = ScenarioSamples + 1
            /\ \E i \in CheckWindow : lastCheck.samples[i].value = 70)
              => ~lastCheck.result

\* the full scenario was found sustained, then a sample of 70.0 was recorded
\* inside the window (before the newest regular sample) and the same check
\* now fails
SustainedScenarioReached ==
    /\ lastCheck.called
    /\ lastCheck.samples = RegularSamples
    /\ lastCheck.operator = OperatorGreaterThan
    /\ lastCheck.result
    /\ Len(buffers[MetricCPUUsage]) = ScenarioSamples + 1
    /\ buffers[MetricCPUUsage][ScenarioSamples + 1] = [value |-> 70, timestamp |-> ScenarioNow - 30]
    /\ ~IsSustained(buffers, MetricCPUUsage, OperatorGreaterThan, Str80, ScenarioDuration, ScenarioNow)

\* C10: when the earliest sample of the window (the smallest timestamp) is
\* later than windowStart + duration/5 the result is false, whatever the
\* order in which the samples were recorded; IsSustained is true only if
\* the window holds a sample within its first fifth.
CoverageRequired ==
    (lastCheck.called /\ lastCheck.result) =>
        /\ CheckWindow # {}
        /\ \E i \in CheckWindow :
              5 * (lastCheck.samples[i].timestamp - (lastCheck.now - lastCheck.duration))
                 <= lastCheck.duration

\* a check that fails on coverage alone, on samples recorded out of time
\* order: every sample of the window satisfies the comparison, none lies in
\* the first fifth
CoverageRejects ==
    /\ lastCheck.called
    /\ ~lastCheck.result
    /\ Cardinality(CheckWindow) >= 2
    /\ \A i \in CheckWindow :
          /\ Satisfies80(lastCheck.samples[i].value, lastCheck.operator)
          /\ 5 * (lastCheck.samples[i].timestamp - (lastCheck.now - lastCheck.duration))
                > lastCheck.duration
    /\ \E i, j \in CheckWindow :
          i < j /\ lastCheck.samples[i].timestamp > lastCheck.samples[j].timestamp

(***************************************************************************)
(* Engine: HandleEvent, fireRule and RefreshRules, one action per step     *)
(* between lock acquisitions and collaborator calls.                       *)
(***************************************************************************)
AllIdle == \A t \in Threads : pc[t] = "idle"

\* the goroutines are interchangeable: a new call runs on the lowest idle one
Free(t) == pc[t] = "idle" /\ \A u \in Threads : u < t => pc[u] # "idle"

\* faulty variant: the loop reads the live cache instead of its snapshot
CurRuleLive(t) == rules[idx[t]]

\* rule := &rules[i], the rule HandleEvent's loop is at
CurRule(t) == snap[t][idx[t]]

\* the "for i := range rules" loop moves on to the next rule, or HandleEvent returns
NextRule(t) ==
    IF idx[t] < Len(snap[t])
    THEN /\ idx' = [idx EXCEPT ![t] = idx[t] + 1]
         /\ pc' = [pc EXCEPT ![t] = "match"]
         /\ UNCHANGED <<ev, snap>>
    ELSE /\ idx' = [idx EXCEPT ![t] = 0]
         /\ pc' = [pc EXCEPT ![t] = "idle"]
         /\ ev' = [ev EXCEPT ![t] = NoEvent]
         /\ snap' = [snap EXCEPT ![t] = <<>>]

\* HandleEvent is called with event e: the metric sample is recorded
HandleEvent(t, e) ==
    /\ Free(t)
    /\ nEvents < MaxEvents
    /\ nEvents' = nEvents + 1
    /\ ev' = [ev EXCEPT ![t] = e]
    /\ buffers' = RecordEvent(buffers, e)
    /\ pc' = [pc EXCEPT ![t] = "snapshot"]
    /\ UNCHANGED <<busVars, extVars, now, lastCheck, nRecords, rules, cooldowns, repoRules, history, snap,
                   idx, nRefresh, matchCalls, cdSets, saveCalls, saveFails, dispCalls>>

\* the rule list is copied under rulesMu.RLock
SnapshotRules(t) ==
    /\ pc[t] = "snapshot"
    /\ IF rules = <<>>
       THEN /\ pc' = [pc EXCEPT ![t] = "idle"]
            /\ ev' = [ev EXCEPT ![t] = NoEvent]
            /\ UNCHANGED <<snap, idx>>
       ELSE /\ snap' = [snap EXCEPT ![t] = rules]
            /\ idx' = [idx EXCEPT ![t] = 1]
            /\ pc' = [pc EXCEPT ![t] = "match"]
            /\ UNCHANGED ev
    /\ UNCHANGED <<busVars, extVars, now, trackerVars, rules, cooldowns, repoRules, history, nEvents,
                   nRefresh, matchCalls, cdSets, saveCalls, saveFails, dispCalls>>

\* e.ruleMatches(rule, event)
MatchRule(t) ==
    /\ pc[t] = "match"
    /\ IF ruleMatches(CurRule(t), ev[t], buffers)
       THEN /\ matchCalls' = [matchCalls EXCEPT ![CurRule(t).ID] = @ + 1]
            /\ pc' = [pc EXCEPT ![t] = "cooldown"]
            /\ UNCHANGED <<ev, snap, idx>>
       ELSE /\ NextRule(t)
            /\ UNCHANGED matchCalls
    /\ UNCHANGED <<busVars, extVars, now, trackerVars, rules, cooldowns, repoRules, history, nEvents,
                   nRefresh, cdSets, saveCalls, saveFails, dispCalls>>

\* faulty variant: the age of the last fire is measured from the event's timestamp
CheckCooldownByTimestamp(t) ==
    /\ pc[t] = "cooldown"
    /\ IF isInCooldown(cooldowns, CurRule(t).ID, CurRule(t).CooldownSec, ev[t].Timestamp)
       THEN NextRule(t)
       ELSE /\ pc' = [pc EXCEPT ![t] = "fire"]
            /\ UNCHANGED <<ev, snap, idx>>
    /\ UNCHANGED <<busVars, extVars, now, trackerVars, rules, cooldowns, repoRules, history, nEvents,
                   nRefresh, matchCalls, cdSets, saveCalls, saveFails, dispCalls>>

\* !e.isInCooldown(rule.ID, rule.CooldownSec)
CheckCooldown(t) ==
    /\ pc[t] = "cooldown"
    /\ IF isInCooldown(cooldowns, CurRule(t).ID, CurRule(t).CooldownSec, now)
       THEN NextRule(t)
       ELSE /\ pc' = [pc EXCEPT ![t] = "fire"]
            /\ UNCHANGED <<ev, snap, idx>>
    /\ UNCHANGED <<busVars, extVars, now, trackerVars, rules, cooldowns, repoRules, history, nEvents,
                   nRefresh, matchCalls, cdSets, saveCalls, saveFails, dispCalls>>

\* faulty variant: no cooldown is recorded for a rule that has no cooldown
FireCooldownOnlyIfPositive(t) ==
    /\ pc[t] = "fire"
    /\ IF CurRule(t).CooldownSec > 0
       THEN /\ cooldowns' = MapSet(cooldowns, CurRule(t).ID, now)
            /\ cdSets' = [cdSets EXCEPT ![CurRule(t).ID] = @ + 1]
       ELSE UNCHANGED <<cooldowns, cdSets>>
    /\ pc' = [pc EXCEPT ![t] = "save"]
    /\ UNCHANGED <<busVars, extVars, now, trackerVars, rules, repoRules, history, ev, snap, idx, nEvents,
                   nRefresh, matchCalls, saveCalls, saveFails, dispCalls>>

\* faulty variant: a fire starts the cooldown of every rule of the snapshot
FireCooldownAllRules(t) ==
    /\ pc[t] = "fire"
    /\ cooldowns' = [i \in DOMAIN cooldowns \cup {snap[t][j].ID : j \in 1..Len(snap[t])} |->
                         IF \E j \in 1..Len(snap[t]) : snap[t][j].ID = i THEN now
                         ELSE cooldowns[i]]
    /\ cdSets' = [cdSets EXCEPT ![CurRule(t).ID] = @ + 1]
    /\ pc' = [pc EXCEPT ![t] = "save"]
    /\ UNCHANGED <<busVars, extVars, now, trackerVars, rules, repoRules, history, ev, snap, idx, nEvents,
                   nRefresh, matchCalls, saveCalls, saveFails, dispCalls>>

\* fireRule, lines 155-158: e.cooldowns[rule.ID] = time.Now()
FireCooldown(t) ==
    /\ pc[t] = "fire"
    /\ cooldowns' = MapSet(cooldowns, CurRule(t).ID, now)
    /\ cdSets' = [cdSets EXCEPT ![CurRule(t).ID] = @ + 1]
    /\ pc' = [pc EXCEPT ![t] = "save"]
    /\ UNCHANGED <<busVars, extVars, now, trackerVars, rules, repoRules, history, ev, snap, idx, nEvents,
                   nRefresh, matchCalls, saveCalls, saveFails, dispCalls>>

\* faulty variant: fireRule returns when SaveHistory fails
FireSaveReturnsOnError(t, ok) ==
    /\ pc[t] = "save"
    /\ saveCalls' = [saveCalls EXCEPT ![CurRule(t).ID] = @ + 1]
    /\ IF ok
       THEN /\ history' = [history EXCEPT ![CurRule(t).ID] = @ + 1]
            /\ pc' = [pc EXCEPT ![t] = "dispatch"]
            /\ UNCHANGED <<saveFails, ev, snap, idx>>
       ELSE /\ saveFails' = [saveFails EXCEPT ![CurRule(t).ID] = @ + 1]
            /\ NextRule(t)
            /\ UNCHANGED history
    /\ UNCHANGED <<busVars, extVars, now, trackerVars, rules, cooldowns, repoRules, nEvents,
                   nRefresh, matchCalls, cdSets, dispCalls>>

\* fireRule, lines 160-183: the history row is built and SaveHistory called;
\* ok is whether the repository accepts the write
FireSave(t, ok) ==
    /\ pc[t] = "save"
    /\ saveCalls' = [saveCalls EXCEPT ![CurRule(t).ID] = @ + 1]
    /\ IF ok
       THEN /\ history' = [history EXCEPT ![CurRule(t).ID] = @ + 1]
            /\ UNCHANGED saveFails
       ELSE /\ saveFails' = [saveFails EXCEPT ![CurRule(t).ID] = @ + 1]
            /\ UNCHANGED history
    /\ pc' = [pc EXCEPT ![t] = "dispatch"]
    /\ UNCHANGED <<busVars, extVars, now, trackerVars, rules, cooldowns, repoRules, ev, snap, idx, nEvents,
                   nRefresh, matchCalls, cdSets, dispCalls>>

\* fireRule, lines 185-188: e.actionFunc(rule, event); then the loop goes on
FireDispatch(t) ==
    /\ pc[t] = "dispatch"
    /\ dispCalls' = [dispCalls EXCEPT ![CurRule(t).ID] = @ + 1]
    /\ NextRule(t)
    /\ UNCHANGED <<busVars, extVars, now, trackerVars, rules, cooldowns, repoRules, history, nEvents,
                   nRefresh, matchCalls, cdSets, saveCalls, saveFails>>

\* faulty variant: a failed query empties the cached rule list
RefreshQueryClearsOnError(t, ok) ==
    /\ Free(t)
    /\ nRefresh < MaxRefresh
    /\ nRefresh' = nRefresh + 1
    /\ IF ok
       THEN /\ snap' = [snap EXCEPT ![t] = repoRules]
            /\ pc' = [pc EXCEPT ![t] = "swap"]
            /\ UNCHANGED rules
       ELSE /\ rules' = <<>>
            /\ UNCHANGED <<snap, pc>>
    /\ UNCHANGED <<busVars, extVars, now, trackerVars, cooldowns, repoRules, history, ev, idx, nEvents,
                   matchCalls, cdSets, saveCalls, saveFails, dispCalls>>

\* RefreshRules, lines 59-62: e.repo.GetEnabledRules(ctx); ok is whether the query succeeds
RefreshQuery(t, ok) ==
    /\ Free(t)
    /\ nRefresh < MaxRefresh
    /\ nRefresh' = nRefresh + 1
    /\ IF ok
       THEN /\ snap' = [snap EXCEPT ![t] = repoRules]
            /\ pc' = [pc EXCEPT ![t] = "swap"]
       ELSE UNCHANGED <<snap, pc>>
    /\ UNCHANGED <<busVars, extVars, now, trackerVars, rules, cooldowns, repoRules, history, ev, idx, nEvents,
                   matchCalls, cdSets, saveCalls, saveFails, dispCalls>>

\* RefreshRules, lines 63-66: e.rules = rules under rulesMu.Lock
RefreshSwap(t) ==
    /\ pc[t] = "swap"
    /\ rules' = snap[t]
    /\ snap' = [snap EXCEPT ![t] = <<>>]
    /\ pc' = [pc EXCEPT ![t] = "idle"]
    /\ UNCHANGED <<busVars, extVars, now, trackerVars, cooldowns, repoRules, history, ev, idx, nEvents,
                   nRefresh, matchCalls, cdSets, saveCalls, saveFails, dispCalls>>

\* the rule-management API changes the enabled rules of the repository (every
\* such change is followed by a RefreshRules call)
RepoUpdate(l) ==
    /\ repoRules # l
    /\ nRefresh < MaxRefresh
    /\ repoRules' = l
    /\ UNCHANGED <<busVars, extVars, now, trackerVars, rules, cooldowns, history, pc, ev, snap, idx, nEvents,
                   nRefresh, matchCalls, cdSets, saveCalls, saveFails, dispCalls>>

\* a second passes
Tick ==
    /\ now < MaxTime
    /\ now' = now + 1
    /\ UNCHANGED <<trackerVars, engineVars, busVars, extVars>>

EngineStep(t) ==
    \/ SnapshotRules(t)
    \/ MatchRule(t)
    \/ CheckCooldown(t)
    \/ FireCooldown(t)
    \/ \E ok \in BOOLEAN : FireSave(t, ok)
    \/ FireDispatch(t)
    \/ RefreshSwap(t)

\* any number of threads call HandleEvent and RefreshRules concurrently
Next ==
    \/ \E t \in Threads : \E e \in EventsAt(now) : HandleEvent(t, e)
    \/ \E t \in Threads : \E ok \in BOOLEAN : RefreshQuery(t, ok)
    \/ \E t \in Threads : EngineStep(t)
    \/ \E l \in RuleLists : RepoUpdate(l)
    \/ Tick

Spec == Init /\ [][Next]_vars

\* HandleEvent is called sequentially (by the bus worker alone): a call starts
\* only after the previous one has returned; RefreshRules runs beside it
NoHandleEventRunning == \A t \in Threads : pc[t] \in {"idle", "swap"}

NextSeq ==
    \/ \E t \in Threads : \E e \in EventsAt(now) : NoHandleEventRunning /\ HandleEvent(t, e)
    \/ \E t \in Threads : \E ok \in BOOLEAN : RefreshQuery(t, ok)
    \/ \E t \in Threads : EngineStep(t)
    \/ \E l \in RuleLists : RepoUpdate(l)
    \/ Tick

SpecSeq == Init /\ [][NextSeq]_vars

(***************************************************************************)
(* Properties of the engine.                                               *)
(***************************************************************************)
CooldownOf(id) == RuleByID(id).CooldownSec

\* the threads that are between ruleMatches and the end of fireRule for rule id
Firing(id, pcs) == {t \in Threads : pc[t] \in pcs /\ CurRule(t).ID = id}

\* C1: HandleEvent called sequentially.  A rule with cooldownSec > 0 fires
\* (records its cooldown) only if it has never fired or its last fire is at
\* least cooldownSec old, so of two matching events less than cooldownSec
\* apart only the first fires; and a matching event handled when the last
\* fire is at least cooldownSec old (or there is none) does fire.
CooldownSequential ==
    [][ /\ \A id \in RuleIDs :
              (CooldownOf(id) > 0 /\ cdSets'[id] # cdSets[id]) =>
                  /\ id \notin DOMAIN cooldowns \/ now - cooldowns[id] >= CooldownOf(id)
                  /\ cooldowns'[id] = now
        /\ (cooldowns' # cooldowns) => \E id \in RuleIDs : cdSets'[id] # cdSets[id]
        /\ \A t \in Threads :
              (pc[t] = "cooldown" /\ pc'[t] # "cooldown" /\ CurRule(t).CooldownSec > 0) =>
                  ((pc'[t] = "fire") <=>
                      (\/ CurRule(t).ID \notin DOMAIN cooldowns
                       \/ now - cooldowns[CurRule(t).ID] >= CurRule(t).CooldownSec))
      ]_vars

\* two matching events one second apart: the rule with a cooldown of 2 s has
\* fired once and was blocked once, the rule with a cooldown of 1 s fired twice
CooldownBothCases ==
    /\ AllIdle
    /\ matchCalls[RuleStream.ID] = 2 /\ dispCalls[RuleStream.ID] = 1
    /\ matchCalls[RuleStreamShort.ID] = 2 /\ dispCalls[RuleStreamShort.ID] = 2

\* C2: also under concurrent HandleEvent calls a rule with cooldownSec > 0
\* that has not fired before fires exactly once within its first cooldown
\* period: one cooldown update, one history record, one dispatcher call.
AtMostOnePerCooldown ==
    \A id \in RuleIDs :
        (CooldownOf(id) > 0 /\ now < CooldownOf(id)) =>
            /\ cdSets[id] <= 1
            /\ saveCalls[id] <= 1
            /\ dispCalls[id] <= 1

IsNumericMetricEvent(e) ==
    /\ e.MetricName # ""
    /\ PropertyValue \in DOMAIN e.Properties
    /\ e.Properties[PropertyValue].kind = "float64"

RECURSIVE TotalSamples(_)
TotalSamples(ms) ==
    IF ms = {} THEN 0
    ELSE LET m == CHOOSE x \in ms : TRUE
         IN  Len(buffers[m]) + TotalSamples(ms \ {m})

\* C4: the tracker's buffers change only in the first step of HandleEvent,
\* before the rule list is read and any rule is matched; a metric event with
\* a numeric value adds exactly one sample (its value and timestamp) to the
\* buffer of its metric, however many cached rules reference the metric.
RecordedOncePerEvent ==
    /\ [](TotalSamples(MetricNames) <= nEvents)
    /\ [][ /\ (buffers' # buffers) =>
                 \E t \in Threads : pc[t] = "idle" /\ pc'[t] = "snapshot"
           /\ \A t \in Threads :
                 (pc[t] = "idle" /\ pc'[t] = "snapshot" /\ IsNumericMetricEvent(ev'[t])) =>
                     buffers' = [buffers EXCEPT ![ev'[t].MetricName] =
                                    Append(@, [value |-> ev'[t].Properties[PropertyValue].num,
                                               timestamp |-> ev'[t].Timestamp])]
         ]_vars

\* the second of two rules on the CPU metric is being matched against the
\* first metric event, and the buffer holds one sample
RecordedOnceTwoRules ==
    \E t \in Threads :
        /\ pc[t] = "match" /\ idx[t] = 2
        /\ snap[t] = <<RuleCPU, RuleCPUSustained>>
        /\ IsNumericMetricEvent(ev[t]) /\ ev[t].MetricName = MetricCPUUsage
        /\ nEvents = 1
        /\ Len(buffers[MetricCPUUsage]) = 1

\* object type and trigger name of the rule equal those of the event
NameMatches(rule, e) ==
    /\ rule.ObjectType = e.ObjectType
    /\ \/ rule.TriggerType = TriggerTypeEvent /\ rule.EventName = e.EventName
       \/ rule.TriggerType = TriggerTypeMetric /\ rule.MetricName = e.MetricName

\* C5: whenever HandleEvent saves a history record or calls the dispatcher
\* for a rule, the event it handles has that rule's object type and trigger
\* name; an event matching no cached rule in these causes neither.
FiresOnlyOnNameMatch ==
    [][ \A id \in RuleIDs :
           (\/ cdSets'[id] # cdSets[id]
            \/ saveCalls'[id] # saveCalls[id]
            \/ history'[id] # history[id]
            \/ dispCalls'[id] # dispCalls[id]) =>
               \E t \in Threads :
                   /\ pc[t] \in {"fire", "save", "dispatch"} /\ pc'[t] # pc[t]
                   /\ CurRule(t).ID = id
                   /\ NameMatches(CurRule(t), ev[t])
      ]_vars

\* the event of object type "nonexistent" has passed the first cached rule
\* and is at the second; nothing was saved or dispatched
UnmatchedEventEvaluated ==
    \E t \in Threads :
        /\ pc[t] = "match" /\ idx[t] = 2
        /\ ev[t].ObjectType = "nonexistent"
        /\ \A u \in Threads : u # t => pc[u] = "idle"
        /\ \A id \in RuleIDs : saveCalls[id] = 0 /\ dispCalls[id] = 0 /\ history[id] = 0

\* C6: for a rule with cooldownSec <= 0 every evaluation in which the rule
\* matched has called the dispatcher or is on its way through fireRule:
\* N matching events give N fires.
EveryMatchFiresWithoutCooldown ==
    \A id \in RuleIDs :
        CooldownOf(id) <= 0 =>
            matchCalls[id] =
                dispCalls[id] + Cardinality(Firing(id, {"cooldown", "fire", "save", "dispatch"}))

\* a rule without cooldown has fired twice within the same second
NoCooldownFiredTwice ==
    /\ AllIdle
    /\ \E id \in RuleIDs :
          /\ CooldownOf(id) <= 0
          /\ matchCalls[id] = 2 /\ dispCalls[id] = 2
          /\ id \in DOMAIN cooldowns /\ cooldowns[id] = 0 /\ now = 0

\* C7: a fire is one cooldown update to the current time, then one
\* SaveHistory call for the rule, then one dispatcher call; when no
\* SaveHistory call failed and HandleEvent has returned, the history rows of
\* a rule are as many as its dispatcher calls.
FireStepsInOrder ==
    /\ [](\A id \in RuleIDs :
            /\ cdSets[id] = saveCalls[id] + Cardinality(Firing(id, {"save"}))
            /\ saveCalls[id] = dispCalls[id] + Cardinality(Firing(id, {"dispatch"}))
            /\ history[id] = saveCalls[id] - saveFails[id]
            /\ (saveFails[id] = 0 /\ NoHandleEventRunning) => history[id] = dispCalls[id])
    /\ [][ \A id \in RuleIDs :
              (cdSets'[id] # cdSets[id]) =>
                  /\ cdSets'[id] = cdSets[id] + 1
                  /\ id \in DOMAIN cooldowns' /\ cooldowns'[id] = now
         ]_vars

\* one event, one rule fired: one cooldown update, one history row, one dispatch
FiredOnce ==
    /\ AllIdle /\ nEvents = 1
    /\ \E id \in RuleIDs :
          /\ cdSets[id] = 1 /\ saveCalls[id] = 1 /\ history[id] = 1 /\ dispCalls[id] = 1
          /\ id \in DOMAIN cooldowns

HandleEventPcs == {"snapshot", "match", "cooldown", "fire", "save", "dispatch"}

\* C8: a SaveHistory call that fails is followed by the dispatcher call for
\* the same rule, leaves the cooldown map as it is (the rule's entry stays),
\* and the loop goes on to the remaining rules: HandleEvent returns only
\* after the last rule of its snapshot.
SaveFailureContinues ==
    [][ \A t \in Threads :
           /\ (pc[t] = "save" /\ saveFails'[CurRule(t).ID] # saveFails[CurRule(t).ID]) =>
                 /\ pc'[t] = "dispatch"
                 /\ cooldowns' = cooldowns /\ CurRule(t).ID \in DOMAIN cooldowns
                 /\ snap'[t] = snap[t] /\ idx'[t] = idx[t]
           /\ (pc[t] = "dispatch" /\ pc'[t] # "dispatch") =>
                 /\ dispCalls'[CurRule(t).ID] = dispCalls[CurRule(t).ID] + 1
                 /\ cooldowns' = cooldowns
                 /\ IF idx[t] < Len(snap[t])
                    THEN pc'[t] = "match" /\ idx'[t] = idx[t] + 1 /\ snap'[t] = snap[t]
                    ELSE pc'[t] = "idle"
           /\ (pc[t] \in HandleEventPcs /\ pc'[t] = "idle") =>
                 (pc[t] = "snapshot" \/ idx[t] = Len(snap[t]))
      ]_vars

\* the first rule's SaveHistory failed; it was dispatched all the same, its
\* cooldown is recorded, and the second rule fired on the same event
SaveFailedBothDispatched ==
    /\ AllIdle /\ nEvents = 1
    /\ saveFails[RuleStream.ID] = 1 /\ history[RuleStream.ID] = 0
    /\ dispCalls[RuleStream.ID] = 1
    /\ RuleStream.ID \in DOMAIN cooldowns
    /\ dispCalls[RuleStreamShort.ID] = 1 /\ history[RuleStreamShort.ID] = 1

(***************************************************************************)
(* The alert event bus: Subscribe, Publish, Stop and the worker goroutine  *)
(* started by NewAlertEventBus.                                            *)
(***************************************************************************)
\* a handler either returns or panics
HandlerKinds == {"returns", "panics"}

\* the timestamps Publish is called with: unset, or set by the caller
PublishStamps == {ZeroTime, 1}

\* make(chan *AlertEvent, eventBusBufferSize), scaled to the bound of the model
Capacity == IF eventBusBufferSize < MaxQueue THEN eventBusBufferSize ELSE MaxQueue

busFrame == <<now, trackerVars, engineVars, extVars>>

\* new calls run on the lowest idle publisher
FreePublisher(p) ==
    /\ pubPc[p] = "idle"
    /\ \A q \in Publishers : q < p => pubPc[q] # "idle"

Subscribe(kind) ==
    /\ Len(handlers) < MaxHandlers
    /\ handlers' = Append(handlers, kind)
    /\ UNCHANGED <<eventCh, stopCh, stopOnce, wpc, draining, cur, hsnap, hidx,
                   pubPc, pubEv, nPublish, nStop, enqueued, delivered>>
    /\ UNCHANGED busFrame

\* faulty variant: stopCh is not looked at
PublishCheckIgnoresStop(p, ts) ==
    /\ FreePublisher(p)
    /\ nPublish < MaxPublish
    /\ nPublish' = nPublish + 1
    /\ pubPc' = [pubPc EXCEPT ![p] = "send"]
    /\ pubEv' = [pubEv EXCEPT ![p] =
                    [id |-> nPublish + 1,
                     Timestamp |-> IF ts = ZeroTime THEN now ELSE ts]]
    /\ UNCHANGED <<handlers, eventCh, stopCh, stopOnce, wpc, draining, cur, hsnap, hidx,
                   nStop, enqueued, delivered>>
    /\ UNCHANGED busFrame

\* Publish, first select: a closed stopCh discards the event; otherwise an
\* unset timestamp is set to the current time
PublishCheck(p, ts) ==
    /\ FreePublisher(p)
    /\ nPublish < MaxPublish
    /\ nPublish' = nPublish + 1
    /\ IF stopCh
       THEN UNCHANGED <<pubPc, pubEv>>
       ELSE /\ pubPc' = [pubPc EXCEPT ![p] = "send"]
            /\ pubEv' = [pubEv EXCEPT ![p] =
                            [id |-> nPublish + 1,
                             Timestamp |-> IF ts = ZeroTime THEN now ELSE ts]]
    /\ UNCHANGED <<handlers, eventCh, stopCh, stopOnce, wpc, draining, cur, hsnap, hidx,
                   nStop, enqueued, delivered>>
    /\ UNCHANGED busFrame

\* faulty variant: the event is sent whether or not the channel has room
PublishSendAlways(p) ==
    /\ pubPc[p] = "send"
    /\ eventCh' = Append(eventCh, pubEv[p])
    /\ enqueued' = Append(enqueued, pubEv[p].id)
    /\ pubPc' = [pubPc EXCEPT ![p] = "idle"]
    /\ pubEv' = [pubEv EXCEPT ![p] = NoBusEvent]
    /\ UNCHANGED <<handlers, stopCh, stopOnce, wpc, draining, cur, hsnap, hidx,
                   nPublish, nStop, delivered>>
    /\ UNCHANGED busFrame

\* Publish, second select: send if the channel has room, else drop
PublishSend(p) ==
    /\ pubPc[p] = "send"
    /\ IF Len(eventCh) < Capacity
       THEN /\ eventCh' = Append(eventCh, pubEv[p])
            /\ enqueued' = Append(enqueued, pubEv[p].id)
       ELSE UNCHANGED <<eventCh, enqueued>>
    /\ pubPc' = [pubPc EXCEPT ![p] = "idle"]
    /\ pubEv' = [pubEv EXCEPT ![p] = NoBusEvent]
    /\ UNCHANGED <<handlers, stopCh, stopOnce, wpc, draining, cur, hsnap, hidx,
                   nPublish, nStop, delivered>>
    /\ UNCHANGED busFrame

\* faulty variant: Stop closes stopCh without sync.Once recording it
BusStopWithoutOnce ==
    /\ nStop < MaxStop
    /\ nStop' = nStop + 1
    /\ stopCh' = TRUE
    /\ UNCHANGED <<handlers, eventCh, stopOnce, wpc, draining, cur, hsnap, hidx,
                   pubPc, pubEv, nPublish, enqueued, delivered>>
    /\ UNCHANGED busFrame

BusStop ==
    /\ nStop < MaxStop
    /\ nStop' = nStop + 1
    /\ IF ~stopOnce
       THEN stopOnce' = TRUE /\ stopCh' = TRUE
       ELSE UNCHANGED <<stopOnce, stopCh>>
    /\ UNCHANGED <<handlers, eventCh, wpc, draining, cur, hsnap, hidx,
                   pubPc, pubEv, nPublish, enqueued, delivered>>
    /\ UNCHANGED busFrame

\* faulty variant: the worker takes the event enqueued last
WorkerReceiveNewest ==
    /\ wpc \in {"select", "drain"}
    /\ eventCh # <<>>
    /\ cur' = eventCh[Len(eventCh)]
    /\ eventCh' = SubSeq(eventCh, 1, Len(eventCh) - 1)
    /\ wpc' = "dispatch"
    /\ UNCHANGED <<handlers, stopCh, stopOnce, draining, hsnap, hidx,
                   pubPc, pubEv, nPublish, nStop, enqueued, delivered>>
    /\ UNCHANGED busFrame

\* processLoop: an event is received, in the outer select or while draining
WorkerReceive ==
    /\ wpc \in {"select", "drain"}
    /\ eventCh # <<>>
    /\ cur' = Head(eventCh)
    /\ eventCh' = Tail(eventCh)
    /\ wpc' = "dispatch"
    /\ UNCHANGED <<handlers, stopCh, stopOnce, draining, hsnap, hidx,
                   pubPc, pubEv, nPublish, nStop, enqueued, delivered>>
    /\ UNCHANGED busFrame

\* processLoop: the outer select takes the stopCh case
WorkerStopSeen ==
    /\ wpc = "select"
    /\ stopCh
    /\ wpc' = "drain"
    /\ draining' = TRUE
    /\ UNCHANGED <<handlers, eventCh, stopCh, stopOnce, cur, hsnap, hidx,
                   pubPc, pubEv, nPublish, nStop, enqueued, delivered>>
    /\ UNCHANGED busFrame

\* faulty variant: the drain loop has no default case and waits on the empty channel
WorkerReturnWaits ==
    /\ wpc = "drain"
    /\ eventCh = <<>>
    /\ UNCHANGED <<wpc, handlers, eventCh, stopCh, stopOnce, draining, cur, hsnap, hidx,
                   pubPc, pubEv, nPublish, nStop, enqueued, delivered>>
    /\ UNCHANGED busFrame

\* processLoop: the drain loop finds the channel empty and returns
WorkerReturn ==
    /\ wpc = "drain"
    /\ eventCh = <<>>
    /\ wpc' = "exited"
    /\ UNCHANGED <<handlers, eventCh, stopCh, stopOnce, draining, cur, hsnap, hidx,
                   pubPc, pubEv, nPublish, nStop, enqueued, delivered>>
    /\ UNCHANGED busFrame

AfterDispatch == IF draining THEN "drain" ELSE "select"

\* dispatch: copy the handler list under the read lock
dispatch ==
    /\ wpc = "dispatch"
    /\ hsnap' = handlers
    /\ IF handlers = <<>>
       THEN wpc' = AfterDispatch /\ hidx' = 0 /\ cur' = NoBusEvent
       ELSE wpc' = "call" /\ hidx' = 1 /\ cur' = cur
    /\ UNCHANGED <<handlers, eventCh, stopCh, stopOnce, draining,
                   pubPc, pubEv, nPublish, nStop, enqueued, delivered>>
    /\ UNCHANGED busFrame

\* faulty variant: a panic is not recovered and ends the worker
safeCallWithoutRecover ==
    /\ wpc = "call"
    /\ delivered' = Append(delivered, [handler |-> hidx, event |-> cur.id,
                                       panicked |-> hsnap[hidx] = "panics"])
    /\ IF hsnap[hidx] = "panics"
       THEN wpc' = "exited" /\ UNCHANGED <<hidx, cur, hsnap>>
       ELSE IF hidx < Len(hsnap)
            THEN hidx' = hidx + 1 /\ UNCHANGED <<wpc, cur, hsnap>>
            ELSE wpc' = AfterDispatch /\ hidx' = 0 /\ cur' = NoBusEvent /\ hsnap' = <<>>
    /\ UNCHANGED <<handlers, eventCh, stopCh, stopOnce, draining,
                   pubPc, pubEv, nPublish, nStop, enqueued>>
    /\ UNCHANGED busFrame

\* safeCall: the handler runs; a panic is recovered and the loop goes on
safeCall ==
    /\ wpc = "call"
    /\ delivered' = Append(delivered, [handler |-> hidx, event |-> cur.id,
                                       panicked |-> hsnap[hidx] = "panics"])
    /\ IF hidx < Len(hsnap)
       THEN hidx' = hidx + 1 /\ UNCHANGED <<wpc, cur, hsnap>>
       ELSE wpc' = AfterDispatch /\ hidx' = 0 /\ cur' = NoBusEvent /\ hsnap' = <<>>
    /\ UNCHANGED <<handlers, eventCh, stopCh, stopOnce, draining,
                   pubPc, pubEv, nPublish, nStop, enqueued>>
    /\ UNCHANGED busFrame

NextBus ==
    \/ \E kind \in HandlerKinds : Subscribe(kind)
    \/ \E p \in Publishers : \E ts \in PublishStamps : PublishCheck(p, ts)
    \/ \E p \in Publishers : PublishSend(p)
    \/ BusStop
    \/ WorkerReceive
    \/ WorkerStopSeen
    \/ WorkerReturn
    \/ dispatch
    \/ safeCall

SpecBus == Init /\ [][NextBus]_vars

(***************************************************************************)
(* Properties of the bus.                                                  *)
(***************************************************************************)
\* C3: no event is lost once enqueued: every event that Publish has sent on
\* the channel is received and dispatched by the worker, so once the worker
\* has exited no event is left in the channel.
NoEnqueuedEventLost ==
    wpc = "exited" => eventCh = <<>>

(***************************************************************************)
(* The metric tracker on time scales of the maximum sample age: timestamps *)
(* 1700 s and 1900 s before the newest one, recorded in any order.         *)
(***************************************************************************)
AgeStamps == {100, 300, 2000}

AgeDurations == {0, 1800, 2000}

AgeNow == 2000

NextAge ==
    \/ \E v \in TrackerValues, ts \in AgeStamps :
          TrackerRecord(MetricCPUUsage, v, ts)
    \/ \E op \in {OperatorGreaterThan, OperatorLessOrEqual}, d \in AgeDurations :
          TrackerIsSustained(MetricCPUUsage, op, Str80, d, AgeNow)

SpecAge == Init /\ [][NextAge]_vars

\* C11: a sample more than maxSampleAge older than the time of the check
\* never contributes to a true result: when IsSustained returns true no
\* sample of its window is that old.
NoStaleSampleInTrueCheck ==
    (lastCheck.called /\ lastCheck.result) =>
        \A i \in CheckWindow :
            lastCheck.now - lastCheck.samples[i].timestamp <= maxSampleAge

\* C13: no buffer holds a sample whose timestamp is more than maxSampleAge
\* older than the timestamp of the sample recorded last for the metric.
BufferAgeBounded ==
    \A m \in MetricNames :
        \A i \in 1..Len(buffers[m]) :
            buffers[m][Len(buffers[m])].timestamp - buffers[m][i].timestamp <= maxSampleAge

(***************************************************************************)
(* The metric tracker at its size cap: more than maxSamplesPerMetric       *)
(* samples are recorded, each carrying its ordinal number for the metric   *)
(* as value and as timestamp (one sample per second).                      *)
(***************************************************************************)
\* the number of samples recorded so far for a metric whose samples carry
\* their ordinal numbers
Recorded(m) == IF buffers[m] = <<>> THEN 0 ELSE buffers[m][Len(buffers[m])].value

CapRecord(m) ==
    /\ nRecords < CapRecords
    /\ nRecords' = nRecords + 1
    /\ buffers' = Record(buffers, m, Recorded(m) + 1, Recorded(m) + 1)
    /\ UNCHANGED <<busVars, extVars, now, lastCheck, engineVars>>

NextCap == \E m \in MetricNames : CapRecord(m)

SpecCap == Init /\ [][NextCap]_vars

\* C12: every buffer holds at most maxSamplesPerMetric samples, and they are
\* the samples recorded last for the metric, in the order they were recorded
\* (what was dropped was at the front).
BufferCapped ==
    /\ Recorded(MetricCPUUsage) + Recorded(MetricMemoryUsage) = nRecords
    /\ \A m \in MetricNames :
          /\ Len(buffers[m]) <= maxSamplesPerMetric
          /\ Len(buffers[m]) =
                IF Recorded(m) < maxSamplesPerMetric THEN Recorded(m) ELSE maxSamplesPerMetric
          /\ \A i \in 1..Len(buffers[m]) :
                buffers[m][i].value = Recorded(m) - Len(buffers[m]) + i

\* the cap was exceeded by two samples: the buffer is full and starts with
\* the third sample recorded
CapExceeded ==
    /\ Len(buffers[MetricCPUUsage]) = maxSamplesPerMetric
    /\ buffers[MetricCPUUsage][1].value = 3
    /\ Recorded(MetricCPUUsage) = maxSamplesPerMetric + 2

\* C14: with duration 0 a single recent sample suffices: when the sample
\* recorded last for the metric satisfies the comparison and was recorded at
\* now or at most one sampling interval before now, IsSustained is true.
InstantaneousRecentSuffices ==
    (/\ lastCheck.called
     /\ lastCheck.duration = 0
     /\ lastCheck.samples # <<>>
     /\ LET latest == lastCheck.samples[Len(lastCheck.samples)]
        IN  /\ latest.timestamp <= lastCheck.now
            /\ lastCheck.now - latest.timestamp <= ScenarioInterval
            /\ Satisfies80(latest.value, lastCheck.operator))
        => lastCheck.result

(***************************************************************************)
(* The metric tracker called with misconfigured conditions: operators that *)
(* are not numeric comparisons and thresholds that are not numbers.        *)
(***************************************************************************)
NumericOperators ==
    {OperatorGreaterThan, OperatorLessThan, OperatorGreaterOrEqual, OperatorLessOrEqual}

CheckOperators == {OperatorGreaterThan, OperatorLessThan, OperatorIs, OperatorContains, ""}

CheckThresholds == {Str80, <<"a", "b">>, <<>>}

NextMisconfigured ==
    \/ \E v \in TrackerValues, ts \in {0, 5} :
          TrackerRecord(MetricCPUUsage, v, ts)
    \/ \E m \in MetricNames, op \in CheckOperators, value \in CheckThresholds,
          d \in {0, 5} :
          TrackerIsSustained(m, op, value, d, 5)

SpecMisconfigured == Init /\ [][NextMisconfigured]_vars

\* a metric rule whose only condition is the sustained condition of the last check
CheckedRule ==
    [RuleCPUSustained EXCEPT
        !.MetricName = lastCheck.metric,
        !.Conditions = <<[Property |-> PropertyValue, Operator |-> lastCheck.operator,
                          Value |-> lastCheck.value, DurationSec |-> lastCheck.duration]>>]

\* a metric event for that rule, handled at the time of the last check
CheckedEvent ==
    Event(ObjectTypeSystem, "", lastCheck.metric, Props(PropertyValue, F64(85)), lastCheck.now)

\* C15: IsSustained returns false when the threshold does not parse, when no
\* sample lies in the window, or when the operator is not a numeric
\* comparison, and the call leaves the buffers as they are; a rule with such
\* a threshold or operator in a sustained condition does not match an event
\* of its metric (recorded by HandleEvent before the rule is matched).
MisconfiguredNeverSustained ==
    /\ [](lastCheck.called =>
            /\ (\/ ~ParseFloat(lastCheck.value).ok
                \/ CheckWindow = {}
                \/ lastCheck.operator \notin NumericOperators) => ~lastCheck.result
            /\ (/\ lastCheck.duration > 0
                /\ \/ ~ParseFloat(lastCheck.value).ok
                   \/ lastCheck.operator \notin NumericOperators) =>
                  ~ruleMatches(CheckedRule, CheckedEvent,
                               RecordEvent([buffers EXCEPT ![lastCheck.metric] = lastCheck.samples],
                                           CheckedEvent)))
    /\ [][(lastCheck' # lastCheck) => (buffers' = buffers)]_vars

\* a check with an operator that is no numeric comparison came out false on
\* a window whose samples all exceed the threshold and cover it
MisconfiguredRejected ==
    /\ lastCheck.called
    /\ ~lastCheck.result
    /\ lastCheck.operator = OperatorIs
    /\ lastCheck.value = Str80
    /\ lastCheck.duration > 0
    /\ CheckWindow # {}
    /\ \A i \in CheckWindow : lastCheck.samples[i].value > 80
    /\ lastCheck.samples[1].timestamp = lastCheck.now - lastCheck.duration

\* the position of an event in the order of enqueuing
EnqueuedAt(id) == CHOOSE i \in 1..Len(enqueued) : enqueued[i] = id

\* C16: handlers are invoked with the events in the order the events were
\* enqueued, each event at most once per handler, and for one event in the
\* order the handlers were registered, starting with the first; Subscribe
\* only ever appends to the handler list, and a handler is invoked at the
\* position it was registered at.
DeliveryInOrder ==
    /\ [](\A i \in 1..Len(delivered) :
            /\ \E k \in 1..Len(enqueued) : enqueued[k] = delivered[i].event
            /\ delivered[i].handler \in 1..Len(handlers)
            /\ delivered[i].panicked = (handlers[delivered[i].handler] = "panics")
            /\ \/ delivered[i].handler = 1
               \/ /\ i > 1
                  /\ delivered[i - 1].event = delivered[i].event
                  /\ delivered[i - 1].handler = delivered[i].handler - 1
            /\ \A j \in 1..Len(delivered) :
                  i < j =>
                     /\ EnqueuedAt(delivered[i].event) <= EnqueuedAt(delivered[j].event)
                     /\ (delivered[i].event = delivered[j].event) =>
                            delivered[i].handler < delivered[j].handler)
    /\ [][(handlers' # handlers) =>
             \E kind \in HandlerKinds : handlers' = Append(handlers, kind)]_vars

\* two publishers enqueued their events in the reverse order of their calls
\* and a second handler was subscribed between the two dispatches
DeliveredAcrossSubscribe ==
    /\ enqueued = <<2, 1>>
    /\ Len(delivered) = 3
    /\ delivered[1].handler = 1 /\ delivered[1].event = 2
    /\ delivered[2].handler = 1 /\ delivered[2].event = 1
    /\ delivered[3].handler = 2 /\ delivered[3].event = 1

\* C17: Publish never blocks: a Publish that has passed its stop check can
\* always take its next step and returns with it; when the channel is full
\* the event is dropped and the channel is left as it is; the channel never
\* holds more events than its capacity.
PublishNeverBlocks ==
    /\ [](/\ Len(eventCh) <= Capacity
          /\ \A p \in Publishers : pubPc[p] = "send" => ENABLED PublishSend(p))
    /\ [][\A p \in Publishers :
             (pubPc[p] = "send" /\ pubPc'[p] # "send") =>
                 /\ pubPc'[p] = "idle"
                 /\ IF Len(eventCh) = Capacity
                    THEN eventCh' = eventCh /\ enqueued' = enqueued
                    ELSE eventCh' = Append(eventCh, pubEv[p])]_vars

\* more Publish calls than the channel has room for passed the stop check
\* before the worker received anything: the channel is full and the last
\* event was dropped
PublishDropped ==
    /\ ~stopCh
    /\ nPublish = Capacity + 1
    /\ \A p \in Publishers : pubPc[p] = "idle"
    /\ Len(eventCh) = Capacity
    /\ Len(enqueued) = Capacity
    /\ delivered = <<>>

\* the events that have passed the stop check of Publish
Accepted ==
    {enqueued[i] : i \in 1..Len(enqueued)}
        \cup {pubEv[p].id : p \in {q \in Publishers : pubPc[q] = "send"}}

\* C18: a Publish call made when stopCh is closed returns at once: it sends
\* nothing, leaves the event (its timestamp) as it is and does not go on to
\* the send; once stopCh is closed no further event is accepted, and only
\* accepted events ever reach a handler.
PublishAfterStopDiscarded ==
    /\ [](\A i \in 1..Len(delivered) : delivered[i].event \in Accepted)
    /\ [][stopCh =>
            /\ Accepted' \subseteq Accepted
            /\ (nPublish' # nPublish) =>
                  /\ pubPc' = pubPc /\ pubEv' = pubEv
                  /\ eventCh' = eventCh /\ enqueued' = enqueued
                  /\ delivered' = delivered]_vars

\* the first event was enqueued and delivered, Stop was called, the worker
\* has exited, and a second Publish was made after Stop and left no trace
SecondPublishDiscarded ==
    /\ stopCh /\ wpc = "exited"
    /\ nPublish = 2
    /\ enqueued = <<1>>
    /\ eventCh = <<>>
    /\ \A p \in Publishers : pubPc[p] = "idle"
    /\ Len(delivered) = 1 /\ delivered[1].event = 1

\* the bus state apart from the count of Stop calls
busStateButStops ==
    <<handlers, eventCh, stopCh, stopOnce, wpc, draining, cur, hsnap, hidx,
      pubPc, pubEv, nPublish, enqueued, delivered>>

\* C19: Stop is idempotent: stopCh is closed only by the one call that finds
\* stopOnce not yet done, and that call marks it done, so a closed stopCh is
\* never closed again (which would panic); every Stop call returns with
\* stopCh closed, and a call on a stopped bus changes nothing; stopCh is
\* never reopened.
StopIdempotent ==
    /\ [](stopCh <=> stopOnce)
    /\ [][/\ (stopCh' # stopCh) => (~stopCh /\ ~stopOnce /\ stopCh' /\ stopOnce')
          /\ stopOnce => stopOnce'
          /\ (nStop' # nStop) =>
                /\ stopCh'
                /\ stopCh => UNCHANGED busStateButStops]_vars

\* Stop was called twice, the second time on the stopped bus
StoppedTwice ==
    /\ nStop = 2
    /\ stopCh /\ stopOnce

\* C20: a handler that panics does not end the worker: after the panicking
\* invocation the worker goes on to the next handler of its list with the
\* same event, or back to receiving after the last one; the event is not
\* put back on the channel; the worker exits only from the drain loop after
\* Stop, and every event it has finished dispatching went to every handler
\* of the list copied for it, the panicking ones included.
PanicDoesNotStopWorker ==
    /\ [](wpc = "exited" => (stopCh /\ draining))
    /\ [][(wpc = "call" /\ delivered' # delivered /\ hsnap[hidx] = "panics") =>
             /\ delivered' = Append(delivered, [handler |-> hidx, event |-> cur.id,
                                                 panicked |-> TRUE])
             /\ eventCh' = eventCh /\ enqueued' = enqueued /\ handlers' = handlers
             /\ IF hidx < Len(hsnap)
                THEN wpc' = "call" /\ hidx' = hidx + 1 /\ cur' = cur /\ hsnap' = hsnap
                ELSE wpc' \in {"select", "drain"}]_vars
    /\ [][(wpc = "call" /\ wpc' # "call") => hidx = Len(hsnap)]_vars

\* the first of two handlers panics on every event; both handlers were
\* invoked with both events
BothDeliveredDespitePanic ==
    /\ handlers = <<"panics", "returns">>
    /\ Len(delivered) = 4
    /\ delivered[1] = [handler |-> 1, event |-> 1, panicked |-> TRUE]
    /\ delivered[2] = [handler |-> 2, event |-> 1, panicked |-> FALSE]
    /\ delivered[3] = [handler |-> 1, event |-> 2, panicked |-> TRUE]
    /\ delivered[4] = [handler |-> 2, event |-> 2, panicked |-> FALSE]

(***************************************************************************)
(* RefreshRules beside HandleEvent on an engine whose rule cache is loaded *)
(* (the state Initialize leaves behind).                                   *)
(***************************************************************************)
\* the enabled rules Initialize found in the repository
LoadedRules == <<RuleStream, RuleStreamShort>>

InitLoaded ==
    /\ now = 0
    /\ buffers = [m \in MetricNames |-> <<>>]
    /\ lastCheck = NoCheck
    /\ nRecords = 0
    /\ rules = LoadedRules
    /\ cooldowns = [i \in {} |-> 0]
    /\ repoRules = LoadedRules
    /\ history = [i \in RuleIDs |-> 0]
    /\ pc = [t \in Threads |-> "idle"]
    /\ ev = [t \in Threads |-> NoEvent]
    /\ snap = [t \in Threads |-> <<>>]
    /\ idx = [t \in Threads |-> 0]
    /\ nEvents = 0
    /\ nRefresh = 0
    /\ matchCalls = [i \in RuleIDs |-> 0]
    /\ cdSets = [i \in RuleIDs |-> 0]
    /\ saveCalls = [i \in RuleIDs |-> 0]
    /\ saveFails = [i \in RuleIDs |-> 0]
    /\ dispCalls = [i \in RuleIDs |-> 0]
    /\ handlers = <<>>
    /\ eventCh = <<>>
    /\ stopCh = FALSE
    /\ stopOnce = FALSE
    /\ wpc = "select"
    /\ draining = FALSE
    /\ cur = NoBusEvent
    /\ hsnap = <<>>
    /\ hidx = 0
    /\ pubPc = [p \in Publishers |-> "idle"]
    /\ pubEv = [p \in Publishers |-> NoBusEvent]
    /\ nPublish = 0
    /\ nStop = 0
    /\ enqueued = <<>>
    /\ delivered = <<>>
    /\ InitExt

\* the events handled beside the refresh: one that the old list's rules match,
\* one that the new list's rules match, one that no rule matches
LoadedEventsAt(t) ==
    { Event(ObjectTypeStream, EventStreamDisconnected, "", NoProperties, t),
      Event(ObjectTypeSystem, "", MetricCPUUsage, Props(PropertyValue, F64(85)), t),
      Event(ObjectTypeStream, EventStreamConnected, "", NoProperties, t) }

NextLoaded ==
    \/ \E t \in Threads : \E e \in LoadedEventsAt(now) : NoHandleEventRunning /\ HandleEvent(t, e)
    \/ \E t \in Threads : \E ok \in BOOLEAN : RefreshQuery(t, ok)
    \/ \E t \in Threads : EngineStep(t)
    \/ \E l \in RuleLists : RepoUpdate(l)
    \/ Tick

SpecLoaded == InitLoaded /\ [][NextLoaded]_vars

\* the threads that are inside HandleEvent's loop over its snapshot
InLoop(t) == pc[t] \in {"match", "cooldown", "fire", "save", "dispatch"}

\* C21: a HandleEvent running beside RefreshRules works on one complete rule
\* list, the old or the new one, never a mixture: the snapshot it takes is the
\* whole cached list of that moment, the cached list is always a list the
\* repository returned as a whole, the rules the call evaluates are the
\* snapshot's in order, and a refresh after the snapshot changes neither the
\* snapshot nor the rule the call is at.
SnapshotIsolated ==
    /\ [](rules \in RuleLists \cup {<<>>})
    /\ [](\A t \in Threads : InLoop(t) => snap[t] \in RuleLists /\ idx[t] \in 1..Len(snap[t]))
    /\ [][ \A t \in Threads :
              /\ (pc[t] = "snapshot" /\ pc'[t] = "match") => snap'[t] = rules /\ idx'[t] = 1
              /\ (InLoop(t) /\ InLoop(t)') =>
                    /\ snap'[t] = snap[t]
                    /\ idx'[t] \in {idx[t], idx[t] + 1}
              /\ (InLoop(t) /\ rules' # rules) => UNCHANGED <<snap[t], idx[t], pc[t], ev[t]>>
              /\ \A id \in RuleIDs :
                    (pc[t] = "match" /\ pc'[t] # "match" /\ matchCalls'[id] # matchCalls[id]) =>
                        id = snap[t][idx[t]].ID
       ]_vars

\* RefreshRules swapped the cached list while a HandleEvent call was at the
\* first rule of the old list, and the call went on to the old list's second rule
RefreshedDuringLoop ==
    \E t \in Threads :
        /\ InLoop(t)
        /\ snap[t] = LoadedRules
        /\ idx[t] = 2
        /\ rules \in RuleLists \ {LoadedRules}

(***************************************************************************)
(* History cleanup: StartHistoryCleanup, stopCleanup, Stop and the cleanup *)
(* goroutine, one action per step between lock acquisitions.               *)
(***************************************************************************)
MaxStart == 2

MaxEngineStop == 2

MaxDeletes == 1

\* the retentionDays arguments
RetentionDays == {-1, 0, 7}

cleanupFrame ==
    <<now, trackerVars, engineVars, busVars, lockVars, testVars, initVars, evalVars, dispVars,
      seedVars>>

\* the goroutines are interchangeable: a new call runs on the lowest idle one
CleanupFree(t) == kpc[t] = "idle" /\ \A u \in Threads : u < t => kpc[u] # "idle"

\* a channel made by StartHistoryCleanup and the goroutine that will select on it
NoTask == [state |-> "unstarted", retention |-> 0]

\* StartHistoryCleanup, lines 206-209: returns at once for retentionDays <= 0
StartHistoryCleanup(t, retentionDays) ==
    /\ CleanupFree(t)
    /\ nStart < MaxStart
    /\ nStart' = nStart + 1
    /\ IF retentionDays <= 0
       THEN /\ lastStart' = [returned |-> TRUE, retentionDays |-> retentionDays]
            /\ UNCHANGED <<kpc, kret>>
       ELSE /\ kpc' = [kpc EXCEPT ![t] = "start_take"]
            /\ kret' = [kret EXCEPT ![t] = retentionDays]
            /\ UNCHANGED lastStart
    /\ UNCHANGED <<cleanupStop, closes, tasks, kch, nEngineStop, deleteCalls, cleanupFrame>>

\* Stop, lines 254-256
EngineStop(t) ==
    /\ CleanupFree(t)
    /\ nEngineStop < MaxEngineStop
    /\ nEngineStop' = nEngineStop + 1
    /\ kpc' = [kpc EXCEPT ![t] = "stop_take"]
    /\ UNCHANGED <<cleanupStop, closes, tasks, kch, kret, nStart, lastStart, deleteCalls,
                   cleanupFrame>>

\* faulty variant: the reference is read but not cleared
stopCleanupTakeKeepsRef(t) ==
    /\ kpc[t] \in {"start_take", "stop_take"}
    /\ kch' = [kch EXCEPT ![t] = cleanupStop]
    /\ kpc' = [kpc EXCEPT ![t] = IF kpc[t] = "start_take" THEN "start_close" ELSE "stop_close"]
    /\ UNCHANGED <<cleanupStop, closes, tasks, kret, nStart, nEngineStop, lastStart, deleteCalls,
                   cleanupFrame>>

\* stopCleanup, lines 244-247: ch := e.cleanupStop; e.cleanupStop = nil, under rulesMu
stopCleanupTake(t) ==
    /\ kpc[t] \in {"start_take", "stop_take"}
    /\ kch' = [kch EXCEPT ![t] = cleanupStop]
    /\ cleanupStop' = 0
    /\ kpc' = [kpc EXCEPT ![t] = IF kpc[t] = "start_take" THEN "start_close" ELSE "stop_close"]
    /\ UNCHANGED <<closes, tasks, kret, nStart, nEngineStop, lastStart, deleteCalls, cleanupFrame>>

\* stopCleanup, lines 248-250: if ch != nil { close(ch) }; Stop returns after it
stopCleanupClose(t) ==
    /\ kpc[t] \in {"start_close", "stop_close"}
    /\ IF kch[t] # 0
       THEN closes' = [closes EXCEPT ![kch[t]] = @ + 1]
       ELSE UNCHANGED closes
    /\ kch' = [kch EXCEPT ![t] = 0]
    /\ kpc' = [kpc EXCEPT ![t] = IF kpc[t] = "start_close" THEN "start_install" ELSE "idle"]
    /\ UNCHANGED <<cleanupStop, tasks, kret, nStart, nEngineStop, lastStart, deleteCalls,
                   cleanupFrame>>

\* StartHistoryCleanup, lines 212-215: a new channel is installed under rulesMu
StartInstall(t) ==
    /\ kpc[t] = "start_install"
    /\ closes' = Append(closes, 0)
    /\ tasks' = Append(tasks, NoTask)
    /\ cleanupStop' = Len(closes) + 1
    /\ kch' = [kch EXCEPT ![t] = Len(closes) + 1]
    /\ kpc' = [kpc EXCEPT ![t] = "start_go"]
    /\ UNCHANGED <<kret, nStart, nEngineStop, lastStart, deleteCalls, cleanupFrame>>

\* StartHistoryCleanup, lines 216-238: the goroutine is started, the call returns
StartGo(t) ==
    /\ kpc[t] = "start_go"
    /\ tasks' = [tasks EXCEPT ![kch[t]] = [state |-> "running", retention |-> kret[t]]]
    /\ lastStart' = [returned |-> TRUE, retentionDays |-> kret[t]]
    /\ kch' = [kch EXCEPT ![t] = 0]
    /\ kpc' = [kpc EXCEPT ![t] = "idle"]
    /\ UNCHANGED <<cleanupStop, closes, kret, nStart, nEngineStop, deleteCalls, cleanupFrame>>

\* cleanup goroutine, lines 221-232: the ticker fires and DeleteHistoryBefore is
\* called; no row is older than the cutoff (retentionDays days) within the
\* clock's range, so the repository deletes nothing
CleanupTick(c) ==
    /\ tasks[c].state = "running"
    /\ deleteCalls < MaxDeletes
    /\ deleteCalls' = deleteCalls + 1
    /\ UNCHANGED <<cleanupStop, closes, tasks, kpc, kch, kret, nStart, nEngineStop, lastStart,
                   cleanupFrame>>

\* cleanup goroutine, lines 233-234: case <-stopCh: return
CleanupExit(c) ==
    /\ tasks[c].state = "running"
    /\ closes[c] > 0
    /\ tasks' = [tasks EXCEPT ![c].state = "exited"]
    /\ UNCHANGED <<cleanupStop, closes, kpc, kch, kret, nStart, nEngineStop, lastStart,
                   deleteCalls, cleanupFrame>>

NextCleanup ==
    \/ \E t \in Threads : \E r \in RetentionDays : StartHistoryCleanup(t, r)
    \/ \E t \in Threads : EngineStop(t)
    \/ \E t \in Threads : stopCleanupTake(t)
    \/ \E t \in Threads : stopCleanupClose(t)
    \/ \E t \in Threads : StartInstall(t)
    \/ \E t \in Threads : StartGo(t)
    \/ \E c \in 1..Len(tasks) : CleanupTick(c)
    \/ \E c \in 1..Len(tasks) : CleanupExit(c)

SpecCleanup == Init /\ [][NextCleanup]_vars

\* C22: whatever the interleaving of StartHistoryCleanup and Stop calls, no
\* stop channel is closed more than once, and a channel that a caller has
\* taken for closing is no longer installed nor taken by another caller.
StopChannelClosedOnce ==
    /\ \A c \in 1..Len(closes) : closes[c] <= 1
    /\ \A t \in Threads :
          (kpc[t] \in {"start_close", "stop_close"} /\ kch[t] # 0) =>
              /\ cleanupStop # kch[t]
              /\ closes[kch[t]] = 0
              /\ \A u \in Threads \ {t} :
                    kpc[u] \in {"start_close", "stop_close"} => kch[u] # kch[t]

\* a restart closed the first channel, a Stop closed the second and a
\* repeated Stop found nothing to close
RestartedAndStoppedTwice ==
    /\ \A t \in Threads : kpc[t] = "idle"
    /\ nStart = 2
    /\ nEngineStop = 2
    /\ closes = <<1, 1>>
    /\ cleanupStop = 0

\* C23: once a StartHistoryCleanup call with retentionDays <= 0 has returned
\* (and no later call has), no cleanup goroutine of the engine is running, also
\* when one had been started earlier with a positive retention.
DisabledMeansNoTask ==
    (/\ \A t \in Threads : kpc[t] = "idle"
     /\ lastStart.returned
     /\ lastStart.retentionDays <= 0) =>
        \A c \in 1..Len(tasks) : tasks[c].state # "running"

(***************************************************************************)
(* Lock discipline: every function as the sequence of its lock, unlock and *)
(* call steps (the longest path through its branches and one loop round).  *)
(***************************************************************************)
Locks == {"rulesMu", "cooldownsMu", "trackerMu", "busMu", "alertBusMu"}

Lock(l) == [op |-> "lock", lock |-> l, mode |-> "w", f |-> ""]
RLock(l) == [op |-> "lock", lock |-> l, mode |-> "r", f |-> ""]
Unlock(l) == [op |-> "unlock", lock |-> l, mode |-> "", f |-> ""]
Call(f) == [op |-> "call", lock |-> "", mode |-> "", f |-> f]

RecordLocks == <<Lock("trackerMu"), Unlock("trackerMu")>>

IsSustainedLocks == <<RLock("trackerMu"), Unlock("trackerMu")>>

HandleEventLocks ==
    <<Call("Record"), RLock("rulesMu"), Unlock("rulesMu"),
      Call("ruleMatches"), Call("isInCooldown"), Call("fireRule")>>

ruleMatchesLocks == <<Call("evaluateMetricConditions")>>

evaluateMetricConditionsLocks == <<Call("IsSustained")>>

isInCooldownLocks == <<RLock("cooldownsMu"), Unlock("cooldownsMu")>>

\* SaveHistory and the action function (ActionDispatcher.Dispatch) run after
\* the unlock; Dispatch and the notification adapter take none of these locks
fireRuleLocks == <<Lock("cooldownsMu"), Unlock("cooldownsMu"), Call("Dispatch")>>

DispatchLocks == <<>>

TestFireRuleLocks == <<Call("fireRule")>>

\* GetEnabledRules runs before the lock is taken
RefreshRulesLocks == <<Lock("rulesMu"), Unlock("rulesMu")>>

\* close(ch) runs after the unlock
stopCleanupLocks == <<Lock("rulesMu"), Unlock("rulesMu")>>

StartHistoryCleanupLocks == <<Call("stopCleanup"), Lock("rulesMu"), Unlock("rulesMu")>>

StopLocks == <<Call("stopCleanup")>>

SubscribeLocks == <<Lock("busMu"), Unlock("busMu")>>

\* faulty variant: the handlers are called before the read lock is released
dispatchLocksHeldOverHandlers == <<RLock("busMu"), Call("safeCall"), Unlock("busMu")>>

dispatchLocks == <<RLock("busMu"), Unlock("busMu"), Call("safeCall")>>

\* the handler Initialize subscribes is Engine.HandleEvent
safeCallLocks == <<Call("HandleEvent")>>

SetGlobalBusLocks == <<Lock("alertBusMu"), Unlock("alertBusMu")>>

GetGlobalBusLocks == <<RLock("alertBusMu"), Unlock("alertBusMu")>>

PublishLocks == <<>>

TryPublishLocks == <<Call("GetGlobalBus"), Call("Publish")>>

InitializeLocks ==
    <<Call("RefreshRules"), Call("Subscribe"), Call("SetGlobalBus"),
      Call("StartHistoryCleanup")>>

Code(f) ==
    CASE f = "Record" -> RecordLocks
      [] f = "IsSustained" -> IsSustainedLocks
      [] f = "HandleEvent" -> HandleEventLocks
      [] f = "ruleMatches" -> ruleMatchesLocks
      [] f = "evaluateMetricConditions" -> evaluateMetricConditionsLocks
      [] f = "isInCooldown" -> isInCooldownLocks
      [] f = "fireRule" -> fireRuleLocks
      [] f = "Dispatch" -> DispatchLocks
      [] f = "TestFireRule" -> TestFireRuleLocks
      [] f = "RefreshRules" -> RefreshRulesLocks
      [] f = "stopCleanup" -> stopCleanupLocks
      [] f = "StartHistoryCleanup" -> StartHistoryCleanupLocks
      [] f = "Stop" -> StopLocks
      [] f = "Subscribe" -> SubscribeLocks
      [] f = "dispatch" -> dispatchLocks
      [] f = "safeCall" -> safeCallLocks
      [] f = "SetGlobalBus" -> SetGlobalBusLocks
      [] f = "GetGlobalBus" -> GetGlobalBusLocks
      [] f = "Publish" -> PublishLocks
      [] f = "TryPublish" -> TryPublishLocks
      [] f = "Initialize" -> InitializeLocks

\* what a goroutine is started on or the rest of the program calls
EntryPoints ==
    {"dispatch", "RefreshRules", "TestFireRule", "StartHistoryCleanup", "Stop",
     "Subscribe", "TryPublish", "Initialize", "Record", "IsSustained"}

lockFrame ==
    <<now, trackerVars, engineVars, busVars, cleanupVars, testVars, initVars, evalVars, dispVars,
      seedVars>>

Top(t) == lstack[t][Len(lstack[t])]

\* the step thread t is at, when it is inside a function body
AtStep(t) ==
    /\ lstack[t] # <<>>
    /\ Top(t).i <= Len(Code(Top(t).f))

Step(t) == Code(Top(t).f)[Top(t).i]

\* sync.RWMutex: a write lock excludes every other holder, a read lock excludes writers
Available(t, l, mode) ==
    \A u \in Threads \ {t} :
        \A h \in held[u] : h.lock = l => (mode = "r" /\ h.mode = "r")

Blocked(t) ==
    /\ AtStep(t)
    /\ Step(t).op = "lock"
    /\ ~Available(t, Step(t).lock, Step(t).mode)

Advance(t) == [lstack[t] EXCEPT ![Len(lstack[t])].i = @ + 1]

\* an idle goroutine enters one of the entry points
Enter(t, f) ==
    /\ lstack[t] = <<>>
    /\ lstack' = [lstack EXCEPT ![t] = <<[f |-> f, i |-> 1]>>]
    /\ UNCHANGED <<held, lockFrame>>

Acquire(t) ==
    /\ AtStep(t)
    /\ Step(t).op = "lock"
    /\ Available(t, Step(t).lock, Step(t).mode)
    /\ held' = [held EXCEPT ![t] = @ \cup {[lock |-> Step(t).lock, mode |-> Step(t).mode]}]
    /\ lstack' = [lstack EXCEPT ![t] = Advance(t)]
    /\ UNCHANGED lockFrame

Release(t) ==
    /\ AtStep(t)
    /\ Step(t).op = "unlock"
    /\ held' = [held EXCEPT ![t] = {h \in @ : h.lock # Step(t).lock}]
    /\ lstack' = [lstack EXCEPT ![t] = Advance(t)]
    /\ UNCHANGED lockFrame

CallStep(t) ==
    /\ AtStep(t)
    /\ Step(t).op = "call"
    /\ lstack' = [lstack EXCEPT ![t] = Append(Advance(t), [f |-> Step(t).f, i |-> 1])]
    /\ UNCHANGED <<held, lockFrame>>

Return(t) ==
    /\ lstack[t] # <<>>
    /\ ~AtStep(t)
    /\ lstack' = [lstack EXCEPT ![t] = SubSeq(@, 1, Len(@) - 1)]
    /\ UNCHANGED <<held, lockFrame>>

NextLocks ==
    \/ \E t \in Threads : \E f \in EntryPoints : Enter(t, f)
    \/ \E t \in Threads : Acquire(t)
    \/ \E t \in Threads : Release(t)
    \/ \E t \in Threads : CallStep(t)
    \/ \E t \in Threads : Return(t)

SpecLocks == Init /\ [][NextLocks]_vars

\* C24: no thread holds more than one of the five locks at a time, a thread
\* that waits for a lock holds none, and whenever some thread is inside a call
\* at least one such thread can take its next step (no deadlock).
AtMostOneLockHeld ==
    /\ \A t \in Threads : Cardinality({h.lock : h \in held[t]}) <= 1
    /\ \A t \in Threads : Blocked(t) => held[t] = {}
    /\ (\E t \in Threads : lstack[t] # <<>>) =>
           \E t \in Threads : lstack[t] # <<>> /\ ~Blocked(t)

\* the bus worker is inside fireRule, four calls deep under dispatch, holding
\* the cooldown lock alone, while another thread waits for that lock
WaitsForCooldownLock ==
    \E t, u \in Threads :
        /\ Len(lstack[t]) = 4
        /\ lstack[t][1].f = "dispatch"
        /\ Top(t).f = "fireRule"
        /\ held[t] = {[lock |-> "cooldownsMu", mode |-> "w"]}
        /\ Blocked(u)
        /\ Top(u).f = "fireRule"

(***************************************************************************)
(* TestFireRule: the test endpoint fires a rule read from the repository.  *)
(***************************************************************************)
MaxTestFire == 3

\* the synthetic event of TestFireRule: the rule's names, Properties {"test": true}
TestEvent(rule, t) ==
    Event(rule.ObjectType, rule.EventName, rule.MetricName, Props("test", Bool(TRUE)), t)

\* the TestFireRule calls made for the rules with an ID in ids
RECURSIVE TestCallsMade(_)
TestCallsMade(ids) ==
    IF ids = {} THEN 0
    ELSE LET id == CHOOSE i \in ids : TRUE
         IN  testCalls[id] + TestCallsMade(ids \ {id})

\* faulty variant: a rule in cooldown is not fired
TestFireRuleRespectsCooldown(t, rule) ==
    /\ Free(t)
    /\ TestCallsMade(RuleIDs) < MaxTestFire
    /\ testCalls' = [testCalls EXCEPT ![rule.ID] = @ + 1]
    /\ IF isInCooldown(cooldowns, rule.ID, rule.CooldownSec, now)
       THEN UNCHANGED <<ev, snap, idx, pc>>
       ELSE /\ ev' = [ev EXCEPT ![t] = TestEvent(rule, now)]
            /\ snap' = [snap EXCEPT ![t] = <<rule>>]
            /\ idx' = [idx EXCEPT ![t] = 1]
            /\ pc' = [pc EXCEPT ![t] = "fire"]
    /\ UNCHANGED <<busVars, cleanupVars, lockVars, initVars, evalVars, dispVars, seedVars, now, trackerVars, rules, cooldowns, repoRules,
                   history, nEvents, nRefresh, matchCalls, cdSets, saveCalls, saveFails, dispCalls>>

\* TestFireRule, lines 193-202: the event is built and fireRule entered; the
\* thread's rule list holds the one rule, so that fireRule returns to the caller
TestFireRule(t, rule) ==
    /\ Free(t)
    /\ TestCallsMade(RuleIDs) < MaxTestFire
    /\ testCalls' = [testCalls EXCEPT ![rule.ID] = @ + 1]
    /\ ev' = [ev EXCEPT ![t] = TestEvent(rule, now)]
    /\ snap' = [snap EXCEPT ![t] = <<rule>>]
    /\ idx' = [idx EXCEPT ![t] = 1]
    /\ pc' = [pc EXCEPT ![t] = "fire"]
    /\ UNCHANGED <<busVars, cleanupVars, lockVars, initVars, evalVars, dispVars, seedVars, now, trackerVars, rules, cooldowns, repoRules,
                   history, nEvents, nRefresh, matchCalls, cdSets, saveCalls, saveFails, dispCalls>>

\* the test endpoint is called for rules of the repository; the cache holds
\* only LoadedRules, the other rules are disabled or not yet refreshed
NextTestFire ==
    \/ \E t \in Threads : \E rule \in AllRules : TestFireRule(t, rule)
    \/ \E t \in Threads : FireCooldown(t)
    \/ \E t \in Threads : \E ok \in BOOLEAN : FireSave(t, ok)
    \/ \E t \in Threads : FireDispatch(t)
    \/ Tick

SpecTestFire == InitLoaded /\ [][NextTestFire]_vars

\* the TestFireRule calls for rule id that have not yet called the dispatcher
TestFiring(id) == {t \in Threads : pc[t] \in {"fire", "save", "dispatch"} /\ CurRule(t).ID = id}

\* C25: every TestFireRule call runs fireRule to exactly one dispatcher call
\* for its rule: per rule the dispatcher calls made plus the calls still inside
\* fireRule equal the TestFireRule calls made, whether the rule is in cooldown,
\* missing from the cached list or has conditions the test event fails; no
\* call is ever at the rule match or the cooldown check.
TestFireAlwaysDispatches ==
    /\ \A id \in RuleIDs : dispCalls[id] + Cardinality(TestFiring(id)) = testCalls[id]
    /\ \A t \in Threads : pc[t] \in {"idle", "fire", "save", "dispatch"}

\* within one second: a rule with a cooldown of 2 s was test-fired twice and a
\* rule that is not cached and whose condition the test event does not satisfy
\* was test-fired; each call reached the dispatcher
TestFiredInCooldown ==
    /\ AllIdle
    /\ now = 0
    /\ dispCalls[RuleStream.ID] = 2
    /\ isInCooldown(cooldowns, RuleStream.ID, RuleStream.CooldownSec, now)
    /\ dispCalls[RuleCPU.ID] = 1
    /\ \A i \in 1..Len(rules) : rules[i].ID # RuleCPU.ID
    /\ ~EvaluateConditions(RuleCPU.Conditions, TestEvent(RuleCPU, now).Properties)

(***************************************************************************)
(* Initialize and seedDefaultRules, one action per repository call or      *)
(* registration.                                                           *)
(***************************************************************************)
\* the names of DefaultRules(), in order
DefaultRuleNames ==
    <<"New species detected", "Audio stream disconnected", "Audio stream error",
      "Audio device error", "High CPU usage", "High memory usage", "Low disk space",
      "MQTT disconnected", "BirdWeather upload failed">>

\* the names of the rules that may be stored before Initialize runs
StoredNames == {DefaultRuleNames[i] : i \in 1..Len(DefaultRuleNames)} \cup {"My rule"}

\* conf.GetSettings(): nil, or settings with Alerting.HistoryRetentionDays
Settings ==
    {[present |-> FALSE, retention |-> 0]} \cup
    {[present |-> TRUE, retention |-> r] : r \in RetentionDays}

\* what the Initialize steps leave alone
initFrame ==
    <<now, trackerVars, lockVars, testVars, evalVars, dispVars, seedVars, cooldowns, repoRules, history, pc, ev, snap, idx,
      nEvents, matchCalls, cdSets, saveCalls, saveFails, dispCalls, eventCh, stopCh, stopOnce,
      wpc, draining, cur, hsnap, hidx, pubPc, pubEv, nPublish, nStop, enqueued, delivered,
      kpc, kch, kret, nEngineStop, deleteCalls>>

\* Initialize returns (nil, err)
Failed == [returned |-> TRUE, engine |-> FALSE, err |-> TRUE]

\* an earlier run or the rule API stored a rule before this start
RepoCreate(name) ==
    /\ ipc = "idle"
    /\ name \notin repoNames
    /\ repoNames' = repoNames \cup {name}
    /\ UNCHANGED <<ipc, seedExisting, seedIdx, created, initFailed, initResult, globalAlertBus,
                   alertEngineActive, bridgeRegistered, rules, nRefresh, handlers, cleanupStop,
                   closes, tasks, nStart, lastStart, initFrame>>

\* Initialize is called, once
InitializeCall ==
    /\ ipc = "idle"
    /\ ipc' = "list"
    /\ UNCHANGED <<repoNames, seedExisting, seedIdx, created, initFailed, initResult,
                   globalAlertBus, alertEngineActive, bridgeRegistered, rules, nRefresh, handlers,
                   cleanupStop, closes, tasks, nStart, lastStart, initFrame>>

\* seedDefaultRules, lines 82-91: repo.ListRules; ok is whether the query succeeds
SeedList(ok) ==
    /\ ipc = "list"
    /\ IF ok
       THEN /\ seedExisting' = repoNames
            /\ seedIdx' = 1
            /\ ipc' = "seed"
            /\ UNCHANGED <<initFailed, initResult>>
       ELSE /\ initFailed' = TRUE
            /\ initResult' = Failed
            /\ ipc' = "done"
            /\ UNCHANGED <<seedExisting, seedIdx>>
    /\ UNCHANGED <<repoNames, created, globalAlertBus, alertEngineActive, bridgeRegistered, rules,
                   nRefresh, handlers, cleanupStop, closes, tasks, nStart, lastStart, initFrame>>

\* faulty variant: CreateRule is called for every default, stored or not
SeedCreateIgnoresExisting(ok) ==
    /\ ipc = "seed"
    /\ seedIdx <= Len(DefaultRuleNames)
    /\ IF ok
       THEN /\ repoNames' = repoNames \cup {DefaultRuleNames[seedIdx]}
            /\ created' = created + 1
            /\ seedIdx' = seedIdx + 1
            /\ UNCHANGED <<initFailed, initResult, ipc>>
       ELSE /\ initFailed' = TRUE
            /\ initResult' = Failed
            /\ ipc' = "done"
            /\ UNCHANGED <<repoNames, created, seedIdx>>
    /\ UNCHANGED <<seedExisting, globalAlertBus, alertEngineActive, bridgeRegistered, rules,
                   nRefresh, handlers, cleanupStop, closes, tasks, nStart, lastStart, initFrame>>

\* seedDefaultRules, lines 95-103: one round of the loop over the defaults; ok
\* is whether repo.CreateRule succeeds when it is called
SeedCreate(ok) ==
    /\ ipc = "seed"
    /\ seedIdx <= Len(DefaultRuleNames)
    /\ IF DefaultRuleNames[seedIdx] \in seedExisting
       THEN /\ ok
            /\ seedIdx' = seedIdx + 1
            /\ UNCHANGED <<repoNames, created, initFailed, initResult, ipc>>
       ELSE IF ok
            THEN /\ repoNames' = repoNames \cup {DefaultRuleNames[seedIdx]}
                 /\ created' = created + 1
                 /\ seedIdx' = seedIdx + 1
                 /\ UNCHANGED <<initFailed, initResult, ipc>>
            ELSE /\ initFailed' = TRUE
                 /\ initResult' = Failed
                 /\ ipc' = "done"
                 /\ UNCHANGED <<repoNames, created, seedIdx>>
    /\ UNCHANGED <<seedExisting, globalAlertBus, alertEngineActive, bridgeRegistered, rules,
                   nRefresh, handlers, cleanupStop, closes, tasks, nStart, lastStart, initFrame>>

\* seedDefaultRules, lines 104-107: the loop is over, nil is returned
SeedReturn ==
    /\ ipc = "seed"
    /\ seedIdx > Len(DefaultRuleNames)
    /\ ipc' = "refresh"
    /\ UNCHANGED <<repoNames, seedExisting, seedIdx, created, initFailed, initResult,
                   globalAlertBus, alertEngineActive, bridgeRegistered, rules, nRefresh, handlers,
                   cleanupStop, closes, tasks, nStart, lastStart, initFrame>>

\* faulty variant: a failed rule load is ignored and the engine started
InitRefreshIgnoresError(ok) ==
    /\ ipc = "refresh"
    /\ nRefresh' = nRefresh + 1
    /\ ipc' = "subscribe"
    /\ IF ok
       THEN /\ rules' = repoRules
            /\ UNCHANGED initFailed
       ELSE /\ initFailed' = TRUE
            /\ UNCHANGED rules
    /\ UNCHANGED <<repoNames, seedExisting, seedIdx, created, initResult, globalAlertBus,
                   alertEngineActive, bridgeRegistered, handlers, cleanupStop, closes, tasks,
                   nStart, lastStart, initFrame>>

\* Initialize, lines 43-49: NewEngine, then engine.RefreshRules (its query and
\* its swap; no other goroutine knows the engine yet); ok is whether
\* GetEnabledRules succeeds
InitRefresh(ok) ==
    /\ ipc = "refresh"
    /\ nRefresh' = nRefresh + 1
    /\ IF ok
       THEN /\ rules' = repoRules
            /\ ipc' = "subscribe"
            /\ UNCHANGED <<initFailed, initResult>>
       ELSE /\ initFailed' = TRUE
            /\ initResult' = Failed
            /\ ipc' = "done"
            /\ UNCHANGED rules
    /\ UNCHANGED <<repoNames, seedExisting, seedIdx, created, globalAlertBus, alertEngineActive,
                   bridgeRegistered, handlers, cleanupStop, closes, tasks, nStart, lastStart,
                   initFrame>>

\* Initialize, line 52: eventBus.Subscribe(engine.HandleEvent)
InitSubscribe ==
    /\ ipc = "subscribe"
    /\ handlers' = Append(handlers, "engine")
    /\ ipc' = "setglobal"
    /\ UNCHANGED <<repoNames, seedExisting, seedIdx, created, initFailed, initResult,
                   globalAlertBus, alertEngineActive, bridgeRegistered, rules, nRefresh,
                   cleanupStop, closes, tasks, nStart, lastStart, initFrame>>

\* Initialize, line 53: SetGlobalBus(eventBus)
InitSetGlobalBus ==
    /\ ipc = "setglobal"
    /\ globalAlertBus' = TRUE
    /\ ipc' = "bridge"
    /\ UNCHANGED <<repoNames, seedExisting, seedIdx, created, initFailed, initResult,
                   alertEngineActive, bridgeRegistered, rules, nRefresh, handlers, cleanupStop,
                   closes, tasks, nStart, lastStart, initFrame>>

\* Initialize, lines 57-62: the detection bridge is registered if the event
\* bus exists (present); a failed registration (~ok) is only logged
InitBridge(present, ok) ==
    /\ ipc = "bridge"
    /\ bridgeRegistered' = (present /\ ok)
    /\ ipc' = "active"
    /\ UNCHANGED <<repoNames, seedExisting, seedIdx, created, initFailed, initResult,
                   globalAlertBus, alertEngineActive, rules, nRefresh, handlers, cleanupStop,
                   closes, tasks, nStart, lastStart, initFrame>>

\* Initialize, line 66: notification.SetAlertEngineActive(true)
InitSetActive ==
    /\ ipc = "active"
    /\ alertEngineActive' = TRUE
    /\ ipc' = "cleanup"
    /\ UNCHANGED <<repoNames, seedExisting, seedIdx, created, initFailed, initResult,
                   globalAlertBus, bridgeRegistered, rules, nRefresh, handlers, cleanupStop,
                   closes, tasks, nStart, lastStart, initFrame>>

\* Initialize, lines 69-76: StartHistoryCleanup with the configured retention,
\* run to its return on the new engine (cleanupStop is nil, nothing to close),
\* then the engine is returned
InitStartCleanup(settings) ==
    /\ ipc = "cleanup"
    /\ IF settings.present
       THEN /\ nStart' = nStart + 1
            /\ lastStart' = [returned |-> TRUE, retentionDays |-> settings.retention]
            /\ IF settings.retention <= 0
               THEN UNCHANGED <<cleanupStop, closes, tasks>>
               ELSE /\ closes' = Append(closes, 0)
                    /\ cleanupStop' = Len(closes) + 1
                    /\ tasks' = Append(tasks, [state |-> "running",
                                               retention |-> settings.retention])
       ELSE UNCHANGED <<nStart, lastStart, cleanupStop, closes, tasks>>
    /\ initResult' = [returned |-> TRUE, engine |-> TRUE, err |-> FALSE]
    /\ ipc' = "done"
    /\ UNCHANGED <<repoNames, seedExisting, seedIdx, created, initFailed, globalAlertBus,
                   alertEngineActive, bridgeRegistered, rules, nRefresh, handlers, initFrame>>

NextInit ==
    \/ \E name \in StoredNames : RepoCreate(name)
    \/ \E l \in RuleLists : ipc = "idle" /\ RepoUpdate(l)
    \/ InitializeCall
    \/ \E ok \in BOOLEAN : SeedList(ok)
    \/ \E ok \in BOOLEAN : SeedCreate(ok)
    \/ SeedReturn
    \/ \E ok \in BOOLEAN : InitRefresh(ok)
    \/ InitSubscribe
    \/ InitSetGlobalBus
    \/ \E present, ok \in BOOLEAN : InitBridge(present, ok)
    \/ InitSetActive
    \/ \E settings \in Settings : InitStartCleanup(settings)

SpecInit == Init /\ [][NextInit]_vars

EngineSubscribed == \E i \in 1..Len(handlers) : handlers[i] = "engine"

\* C26: once ListRules, CreateRule or the initial GetEnabledRules has failed,
\* Initialize has returned the error and no engine, and from then on the
\* engine is not subscribed to the bus, the global bus is not set, the
\* alert-engine-active flag is down, the detection bridge is not registered and
\* no cleanup goroutine exists.
FailedInitializeStartsNothing ==
    initFailed =>
        /\ ipc = "done"
        /\ initResult = Failed
        /\ ~EngineSubscribed
        /\ ~globalAlertBus
        /\ ~alertEngineActive
        /\ ~bridgeRegistered
        /\ tasks = <<>> /\ cleanupStop = 0 /\ nStart = 0

\* seeding created the two missing defaults, then the rule load failed
SeededThenLoadFailed ==
    /\ initFailed
    /\ created = 2
    /\ seedIdx > Len(DefaultRuleNames)
    /\ nRefresh = 1
    /\ initResult = Failed

(***************************************************************************)
(* Direct use of the condition evaluator, and of ruleMatches on a rule     *)
(* that carries the evaluated conditions.                                  *)
(***************************************************************************)
\* the operators a stored condition can carry, a misspelt one included
EvalOperators ==
    {OperatorIs, OperatorIsNot, OperatorContains, OperatorNotContains, OperatorGreaterThan,
     OperatorLessThan, OperatorGreaterOrEqual, OperatorLessOrEqual, "unknown_op"}

EvalCondValues == {<<"a", "b">>, <<"dotless_i">>, Str80}

EvalPropValues ==
    {Str(<<"a", "b">>), Str(<<"R", "A", "B">>), Str(<<"dotless_i">>), F64(85), Bool(TRUE)}

\* the seconds a condition must be sustained, 0 for an instantaneous one
EvalDurations == {0, 2}

EvalConditions ==
    {[Property |-> p, Operator |-> op, Value |-> v, DurationSec |-> d] :
        p \in {PropertySpeciesName, PropertyValue}, op \in EvalOperators,
        v \in EvalCondValues, d \in EvalDurations}

\* the conditions that stand second in a two-condition list
EvalSecondConditions ==
    {[Property |-> PropertySpeciesName, Operator |-> OperatorContains, Value |-> <<"a", "b">>,
      DurationSec |-> 0],
     [Property |-> PropertyValue, Operator |-> OperatorGreaterThan, Value |-> Str80,
      DurationSec |-> 0],
     [Property |-> PropertyValue, Operator |-> OperatorLessThan, Value |-> Str80,
      DurationSec |-> 0]}

EvalConditionLists ==
    {<<>>} \cup {<<c>> : c \in EvalConditions}
           \cup {<<c, d>> : c \in EvalConditions, d \in EvalSecondConditions}

\* a nil or empty map, species_name alone, value alone, both
EvalPropertyMaps ==
    {NoProperties, Props(PropertyValue, F64(85))}
    \cup {Props(PropertySpeciesName, v) : v \in EvalPropValues}
    \cup {[p \in {PropertySpeciesName, PropertyValue} |->
              IF p = PropertySpeciesName THEN v ELSE F64(85)] : v \in EvalPropValues}

evalFrame ==
    <<now, engineVars, busVars, cleanupVars, lockVars, testVars, initVars, dispVars, seedVars>>

\* the metric collector has published its sample of this second and
\* HandleEvent recorded it
EvalSample ==
    /\ ~lastEval.called
    /\ \A i \in 1..Len(buffers[MetricCPUUsage]) : buffers[MetricCPUUsage][i].timestamp # now
    /\ buffers' = Record(buffers, MetricCPUUsage, 85, now)
    /\ UNCHANGED <<lastCheck, nRecords, lastEval, evalFrame>>

\* an event rule and a metric rule that carry the conditions
EvalEventRule(conditions) == [RuleStream EXCEPT !.Conditions = conditions]

EvalMetricRule(conditions) == [RuleCPU EXCEPT !.Conditions = conditions]

\* EvaluateConditions(conditions, properties) is called; ruleMatches is called
\* for an event and for a metric sample that carry the properties and whose
\* object type and trigger name are the rule's, the metric sample recorded
\* first as HandleEvent does.  One evaluation is followed per behaviour: the
\* functions are pure but for the tracker's samples.
Evaluate(conditions, properties) ==
    LET sample   == Event(ObjectTypeSystem, "", MetricCPUUsage, properties, now)
        recorded == RecordEvent(buffers, sample)
    IN  /\ ~lastEval.called
        /\ buffers' = recorded
        /\ lastEval' =
              [called |-> TRUE, conditions |-> conditions, properties |-> properties,
               result |-> EvaluateConditions(conditions, properties),
               eventRule |-> ruleMatches(EvalEventRule(conditions),
                                 Event(ObjectTypeStream, EventStreamDisconnected, "",
                                       properties, now),
                                 buffers),
               metricRule |-> ruleMatches(EvalMetricRule(conditions), sample, recorded)]
        /\ UNCHANGED <<lastCheck, nRecords, evalFrame>>

NextEval ==
    \/ \E conditions \in EvalConditionLists : \E properties \in EvalPropertyMaps :
          Evaluate(conditions, properties)
    \/ EvalSample
    \/ ~lastEval.called /\ Tick

SpecEval == Init /\ [][NextEval]_vars

\* C27: EvaluateConditions returns true exactly if every condition of the
\* list matches; the empty list gives true for every property map, and a rule
\* without conditions matches every event with its object type and trigger name.
AllConditionsMustMatch ==
    lastEval.called =>
        /\ lastEval.result <=>
              \A i \in 1..Len(lastEval.conditions) :
                  evaluateCondition(lastEval.conditions[i], lastEval.properties)
        /\ lastEval.conditions = <<>> =>
              lastEval.result /\ lastEval.eventRule /\ lastEval.metricRule

\* the first of two conditions matches, the second does not: the result is false
SecondConditionFails ==
    /\ lastEval.called
    /\ Len(lastEval.conditions) = 2
    /\ evaluateCondition(lastEval.conditions[1], lastEval.properties)
    /\ ~evaluateCondition(lastEval.conditions[2], lastEval.properties)
    /\ ~lastEval.result

\* the conditions of the last evaluation whose property the map does not hold
MissingConditions ==
    {i \in 1..Len(lastEval.conditions) :
        lastEval.conditions[i].Property \notin DOMAIN lastEval.properties}

\* C28 as stated: a condition whose property is missing from the property map
\* does not match, whatever its operator, and no rule that contains such a
\* condition matches the event.
MissingPropertyNeverMatches ==
    (lastEval.called /\ MissingConditions # {}) =>
        /\ \A i \in MissingConditions :
              ~evaluateCondition(lastEval.conditions[i], lastEval.properties)
        /\ ~lastEval.result
        /\ ~lastEval.eventRule
        /\ ~lastEval.metricRule

\* C28, amended: a condition whose property is missing from the property map
\* does not match, whatever its operator; EvaluateConditions is false, an
\* event-triggered rule that contains the condition does not match, and a
\* metric-triggered rule does not match if the condition has DurationSec <= 0
\* (a condition with DurationSec > 0 is decided by IsSustained on the metric's
\* samples, which does not read the property map).
MissingPropertyNeverMatchesInstantly ==
    (lastEval.called /\ MissingConditions # {}) =>
        /\ \A i \in MissingConditions :
              ~evaluateCondition(lastEval.conditions[i], lastEval.properties)
        /\ ~lastEval.result
        /\ ~lastEval.eventRule
        /\ (\E i \in MissingConditions : lastEval.conditions[i].DurationSec <= 0) =>
              ~lastEval.metricRule

\* a not_contains condition on a property the map does not hold, evaluated
\* beside a condition that matches: the list does not match
NegatedOperatorOnMissingProperty ==
    /\ lastEval.called
    /\ Len(lastEval.conditions) = 2
    /\ lastEval.conditions[1].Operator = OperatorNotContains
    /\ MissingConditions = {1}
    /\ evaluateCondition(lastEval.conditions[2], lastEval.properties)
    /\ ~lastEval.result
    /\ ~lastEval.eventRule
    /\ ~lastEval.metricRule

\* a string in upper case, in lower case and as it is
CaseVariants(s) == {s, ToUpper(s), ToLower(s)}

\* a property value with the case of its string changed
PropertyCaseVariants(val) ==
    IF val.kind = "string" THEN {Str(s) : s \in CaseVariants(val.str)} ELSE {val}

\* the condition with another operator and value
WithOperator(cond, operator, value) == [cond EXCEPT !.Operator = operator, !.Value = value]

\* C29: for a property that is present and a fixed condition value, contains
\* and not_contains give opposite results, is and is_not give opposite
\* results, and each of the four results stays the same when the property
\* value or the condition value is put in upper or lower case.
StringOperatorsIgnoreCase ==
    (/\ lastEval.called
     /\ Len(lastEval.conditions) = 1
     /\ lastEval.conditions[1].Property \in DOMAIN lastEval.properties) =>
        LET cond  == lastEval.conditions[1]
            props == lastEval.properties
            param == cond.Property
        IN  /\ evaluateCondition(WithOperator(cond, OperatorContains, cond.Value), props)
                  # evaluateCondition(WithOperator(cond, OperatorNotContains, cond.Value), props)
            /\ evaluateCondition(WithOperator(cond, OperatorIs, cond.Value), props)
                  # evaluateCondition(WithOperator(cond, OperatorIsNot, cond.Value), props)
            /\ \A op \in {OperatorIs, OperatorIsNot, OperatorContains, OperatorNotContains} :
                  \A v \in CaseVariants(cond.Value) :
                      \A p \in PropertyCaseVariants(props[param]) :
                          evaluateCondition(WithOperator(cond, op, v),
                                            [props EXCEPT ![param] = p])
                              = evaluateCondition(WithOperator(cond, op, cond.Value), props)


(***************************************************************************)
(* ActionDispatcher: Dispatch runs a fired rule's actions.  A text is a    *)
(* sequence of pieces; a template piece is literal text or a placeholder.  *)
(***************************************************************************)
MaxActions == 3
MaxDispatch == 1

Placeholder(k) == "{{" \o k \o "}}"

defaultTemplate(rule, event) ==
    IF event.EventName # ""
    THEN <<"Alert: ">> \o rule.Name \o <<" (", event.EventName, ")">>
    ELSE IF event.MetricName # ""
    THEN <<"Alert: ">> \o rule.Name \o <<" (", event.MetricName, ")">>
    ELSE <<"Alert: ">> \o rule.Name

\* strings.NewReplacer(pairs...).Replace on one piece; the four fixed pairs
\* come first in the argument list and so win over a property of the same name
ReplacePiece(piece, rule, event) ==
    CASE piece = Placeholder("rule_name")   -> rule.Name
      [] piece = Placeholder("event_name")  -> <<event.EventName>>
      [] piece = Placeholder("metric_name") -> <<event.MetricName>>
      [] piece = Placeholder("object_type") -> <<event.ObjectType>>
      [] OTHER ->
            IF \E k \in DOMAIN event.Properties : piece = Placeholder(k)
            THEN Sprintv(event.Properties[CHOOSE k \in DOMAIN event.Properties :
                                              piece = Placeholder(k)])
            ELSE <<piece>>

RECURSIVE ReplaceAll(_, _, _)
ReplaceAll(tmpl, rule, event) ==
    IF tmpl = <<>> THEN <<>>
    ELSE ReplacePiece(Head(tmpl), rule, event) \o ReplaceAll(Tail(tmpl), rule, event)

renderTemplate(tmpl, rule, event) ==
    IF tmpl = <<>> THEN defaultTemplate(rule, event)
    ELSE ReplaceAll(tmpl, rule, event)

\* entities.AlertAction values a stored rule can carry
AlertActions ==
    { [Target |-> tg, TemplateTitle |-> tt, TemplateMessage |-> <<"value ", Placeholder("value")>>] :
        tg \in {TargetBell, "nonexistent"},
        tt \in {<<>>, <<"Bell ", Placeholder("rule_name")>>} }

ActionLists == UNION { [1..n -> AlertActions] : n \in 0..MaxActions }

DispatchRule(actions) == [ID |-> 1, Name |-> <<"Test">>, Actions |-> actions]

DispatchEvents ==
    { Event(ObjectTypeStream, EventStreamDisconnected, "", NoProperties, 0),
      Event(ObjectTypeSystem, "", MetricCPUUsage, Props(PropertyValue, F64(85)), 0) }

dispFrame == <<now, trackerVars, engineVars, busVars, cleanupVars, lockVars, testVars,
               initVars, evalVars, seedVars>>

\* NewActionDispatcher(notifCreator, log)
NewActionDispatcher(creator) ==
    /\ notifCreator = "unset"
    /\ notifCreator' = creator
    /\ UNCHANGED <<dpc, drule, devent, didx, dcalls, warned, nDispatch>>
    /\ UNCHANGED dispFrame

\* Dispatch: entry, before the first loop iteration
Dispatch(rule, event) ==
    /\ notifCreator # "unset"
    /\ dpc = "idle"
    /\ nDispatch < MaxDispatch
    /\ dpc' = "loop"
    /\ drule' = rule
    /\ devent' = event
    /\ didx' = 1
    /\ dcalls' = <<>>
    /\ warned' = <<>>
    /\ nDispatch' = nDispatch + 1
    /\ UNCHANGED notifCreator
    /\ UNCHANGED dispFrame

\* faulty variant: the loop ends at the first action with an unknown target
DispatchActionStopsAtUnknown(ok) ==
    /\ dpc = "loop"
    /\ didx <= Len(drule.Actions)
    /\ LET action  == drule.Actions[didx]
           title   == renderTemplate(action.TemplateTitle, drule, devent)
           message == renderTemplate(action.TemplateMessage, drule, devent)
       IN  IF action.Target = TargetBell
           THEN /\ IF notifCreator = "nil"
                   THEN ok /\ UNCHANGED dcalls
                   ELSE dcalls' = Append(dcalls, [action |-> didx, title |-> title,
                                                  message |-> message, err |-> ~ok])
                /\ didx' = didx + 1
                /\ UNCHANGED warned
           ELSE /\ ok
                /\ warned' = Append(warned, didx)
                /\ didx' = Len(drule.Actions) + 1
                /\ UNCHANGED dcalls
    /\ UNCHANGED <<notifCreator, dpc, drule, devent, nDispatch>>
    /\ UNCHANGED dispFrame

\* Dispatch: one loop iteration, with dispatchBell and the outcome of
\* CreateAndBroadcast (ok = it returned no error)
DispatchAction(ok) ==
    /\ dpc = "loop"
    /\ didx <= Len(drule.Actions)
    /\ LET action  == drule.Actions[didx]
           title   == renderTemplate(action.TemplateTitle, drule, devent)
           message == renderTemplate(action.TemplateMessage, drule, devent)
       IN  IF action.Target = TargetBell
           THEN /\ IF notifCreator = "nil"
                   THEN ok /\ UNCHANGED dcalls
                   ELSE dcalls' = Append(dcalls, [action |-> didx, title |-> title,
                                                  message |-> message, err |-> ~ok])
                /\ UNCHANGED warned
           ELSE /\ ok
                /\ warned' = Append(warned, didx)
                /\ UNCHANGED dcalls
    /\ didx' = didx + 1
    /\ UNCHANGED <<notifCreator, dpc, drule, devent, nDispatch>>
    /\ UNCHANGED dispFrame

\* Dispatch: the loop is over
DispatchReturn ==
    /\ dpc = "loop"
    /\ didx > Len(drule.Actions)
    /\ dpc' = "idle"
    /\ UNCHANGED <<notifCreator, drule, devent, didx, dcalls, warned, nDispatch>>
    /\ UNCHANGED dispFrame

NextDispatch ==
    \/ \E creator \in {"nil", "set"} : NewActionDispatcher(creator)
    \/ \E actions \in ActionLists, event \in DispatchEvents :
           Dispatch(DispatchRule(actions), event)
    \/ \E ok \in BOOLEAN : DispatchAction(ok)
    \/ DispatchReturn

SpecDispatch == Init /\ [][NextDispatch]_vars

\* the positions among the first n actions whose target satisfies the test
RECURSIVE Positions(_, _, _)
Positions(actions, n, bell) ==
    IF n = 0 THEN <<>>
    ELSE LET rest == Positions(actions, n - 1, bell)
         IN  IF (actions[n].Target = TargetBell) = bell THEN Append(rest, n) ELSE rest

\* C30: Dispatch takes the actions in list order; an unknown target or a failed
\* notification call stops nothing, so when Dispatch returns the notification
\* creator has received one call per bell action, in list order, each with that
\* action's rendered title and message
BellCallsInListOrder ==
    (nDispatch > 0 /\ notifCreator = "set") =>
        LET done  == didx - 1
            bells == Positions(drule.Actions, done, TRUE)
        IN  /\ dpc = "idle" => done = Len(drule.Actions)
            /\ Len(dcalls) = Len(bells)
            /\ \A i \in 1..Len(bells) :
                   /\ dcalls[i].action = bells[i]
                   /\ dcalls[i].title =
                          renderTemplate(drule.Actions[bells[i]].TemplateTitle, drule, devent)
                   /\ dcalls[i].message =
                          renderTemplate(drule.Actions[bells[i]].TemplateMessage, drule, devent)
            /\ warned = Positions(drule.Actions, done, FALSE)

\* Dispatch has returned for <<bell, unknown, bell>>; the first notification
\* call failed and both bell actions reached the notification creator
BellAfterUnknownAndFailure ==
    /\ nDispatch > 0
    /\ dpc = "idle"
    /\ notifCreator = "set"
    /\ Len(drule.Actions) = 3
    /\ drule.Actions[1].Target = TargetBell
    /\ drule.Actions[2].Target # TargetBell
    /\ drule.Actions[3].Target = TargetBell
    /\ warned = <<2>>
    /\ Len(dcalls) = 2
    /\ dcalls[1].action = 1 /\ dcalls[1].err
    /\ dcalls[2].action = 3

(***************************************************************************)
(* seedDefaultRules over several process starts: a start runs it on what   *)
(* the earlier starts left in the repository.                              *)
(***************************************************************************)
MaxSeedRuns == 2

DefaultNameSet == {DefaultRuleNames[i] : i \in 1..Len(DefaultRuleNames)}

\* the defaults the loop of seedDefaultRules has gone past when its index is i
SeedDone(i) == {DefaultRuleNames[j] : j \in 1..(i - 1)}

\* the process starts and Initialize calls seedDefaultRules
ProcessStart ==
    /\ ipc = "idle"
    /\ seedRuns < MaxSeedRuns
    /\ ipc' = "list"
    /\ seedRuns' = seedRuns + 1
    /\ seedFirst' = IF seedRuns = 0 THEN repoNames ELSE seedFirst
    /\ UNCHANGED createdBefore
    /\ UNCHANGED <<repoNames, seedExisting, seedIdx, created, initFailed, initResult,
                   globalAlertBus, alertEngineActive, bridgeRegistered>>
    /\ UNCHANGED <<now, trackerVars, engineVars, busVars, cleanupVars, lockVars, testVars,
                   evalVars, dispVars>>

\* the process ends after seedDefaultRules returned, with or without an error;
\* only the repository outlives it
ProcessExit ==
    /\ ipc \in {"refresh", "done"}
    /\ ipc' = "idle"
    /\ seedExisting' = {}
    /\ seedIdx' = 0
    /\ created' = 0
    /\ initFailed' = FALSE
    /\ initResult' = NoResult
    /\ createdBefore' = createdBefore + created
    /\ UNCHANGED <<seedRuns, seedFirst>>
    /\ UNCHANGED <<repoNames, globalAlertBus, alertEngineActive, bridgeRegistered>>
    /\ UNCHANGED <<now, trackerVars, engineVars, busVars, cleanupVars, lockVars, testVars,
                   evalVars, dispVars>>

NextSeed ==
    \/ \E name \in StoredNames : seedRuns = 0 /\ RepoCreate(name)
    \/ ProcessStart
    \/ \E ok \in BOOLEAN : SeedList(ok)
    \/ \E ok \in BOOLEAN : SeedCreate(ok)
    \/ SeedReturn
    \/ ProcessExit

SpecSeed == Init /\ [][NextSeed]_vars

MaxApiCalls == 3

\* the API requests made so far that changed the repository
ApiCalls == nRefresh + Cardinality({t \in Threads : pc[t] = "api_refresh"})

\* CreateAlertRule, UpdateAlertRule, ToggleAlertRule, DeleteAlertRule: the
\* repository call has committed; l is the enabled rules after it
ApiChange(t, l) ==
    /\ Free(t)
    /\ ApiCalls < MaxApiCalls
    /\ repoRules # l
    /\ repoRules' = l
    /\ pc' = [pc EXCEPT ![t] = "api_refresh"]
    /\ UNCHANGED <<busVars, extVars, now, trackerVars, rules, cooldowns, history, ev, snap, idx,
                   nEvents, nRefresh, matchCalls, cdSets, saveCalls, saveFails, dispCalls>>

\* refreshAlertEngine: RefreshRules, lines 59-62, the repository answering
ApiRefreshQuery(t) ==
    /\ pc[t] = "api_refresh"
    /\ nRefresh' = nRefresh + 1
    /\ snap' = [snap EXCEPT ![t] = repoRules]
    /\ pc' = [pc EXCEPT ![t] = "swap"]
    /\ UNCHANGED <<busVars, extVars, now, trackerVars, rules, cooldowns, repoRules, history, ev,
                   idx, nEvents, matchCalls, cdSets, saveCalls, saveFails, dispCalls>>

NextApi ==
    \/ \E t \in Threads : \E l \in RuleLists : ApiChange(t, l)
    \/ \E t \in Threads : ApiRefreshQuery(t)
    \/ \E t \in Threads : RefreshSwap(t)
    \/ Tick

SpecApi == Init /\ [][NextApi]_vars

\* C32: when every API handler has returned, each change having been followed
\* by its own RefreshRules call, the cached rule list is the repository's
\* list of enabled rules
NoLostRefresh ==
    (nRefresh > 0 /\ \A t \in Threads : pc[t] = "idle") => rules = repoRules

\* C33: TestFireRule leaves the cooldown map as it is: while no event has been
\* handled the map has no entry, and no rule is in cooldown, so that a matching
\* event handled next would fire it
TestFireLeavesCooldowns ==
    nEvents = 0 =>
        \A r \in AllRules :
            /\ r.ID \notin DOMAIN cooldowns
            /\ ~isInCooldown(cooldowns, r.ID, r.CooldownSec, now)

\* the cleanup goroutines that run and have not been told to stop
LiveTasks == {c \in 1..Len(tasks) : tasks[c].state = "running" /\ closes[c] = 0}

\* C34: at most one cleanup goroutine is active at any time (one whose stop
\* channel is closed and that is on its way out is not counted), and once Stop
\* has returned with no StartHistoryCleanup call in progress or after it, every
\* goroutine still running has had its stop channel closed, so that it exits
OneCleanupTaskAndStopReachesAll ==
    /\ Cardinality(LiveTasks) <= 1
    /\ (/\ \A t \in Threads : kpc[t] = "idle"
        /\ nEngineStop > 0
        /\ cleanupStop = 0) => LiveTasks = {}

(***************************************************************************)
(* Rules created through the rule-management API and then matched by the   *)
(* engine.                                                                 *)
(***************************************************************************)
MaxCreated == 2

\* the request bodies CreateAlertRule can be sent: every field is free text
PostedRules ==
    {[Name |-> n, ObjectType |-> ot, TriggerType |-> tt, EventName |-> en, MetricName |-> mn] :
        n \in {"", "a", "b"},
        ot \in {"", ObjectTypeSystem, ObjectTypeStream},
        tt \in {"", TriggerTypeEvent, TriggerTypeMetric, "schedule"},
        en \in {"", EventStreamDisconnected},
        mn \in {"", MetricCPUUsage}}

\* CreateAlertRule, lines 128-143: the checks made before CreateRule
AcceptsRule(body, stored) ==
    /\ body.Name # ""
    /\ body.ObjectType # "" /\ body.TriggerType # ""
    /\ \A i \in 1..Len(stored) : stored[i].Name # body.Name

\* the row CreateRule stores: the next ID, enabled, no conditions, no cooldown
StoredRule(body, id) ==
    [ID |-> id, Name |-> body.Name, ObjectType |-> body.ObjectType,
     TriggerType |-> body.TriggerType, EventName |-> body.EventName,
     MetricName |-> body.MetricName, CooldownSec |-> 0, Conditions |-> <<>>,
     Actions |-> <<[Target |-> TargetBell]>>]

\* CreateAlertRule up to the committed CreateRule; a rejected request changes nothing
CreateAlertRule(t, body) ==
    /\ Free(t)
    /\ Len(repoRules) < MaxCreated
    /\ AcceptsRule(body, repoRules)
    /\ repoRules' = Append(repoRules, StoredRule(body, Len(repoRules) + 1))
    /\ pc' = [pc EXCEPT ![t] = "api_refresh"]
    /\ UNCHANGED <<busVars, extVars, now, trackerVars, rules, cooldowns, history, ev, snap, idx,
                   nEvents, nRefresh, matchCalls, cdSets, saveCalls, saveFails, dispCalls>>

\* an event by name, and a metric sample
CreatedEventsAt(t) ==
    { Event(ObjectTypeStream, EventStreamDisconnected, "", NoProperties, t),
      Event(ObjectTypeSystem, "", MetricCPUUsage, Props(PropertyValue, F64(85)), t) }

NextCreated ==
    \/ \E t \in Threads : \E body \in PostedRules : AllIdle /\ CreateAlertRule(t, body)
    \/ \E t \in Threads : ApiRefreshQuery(t)
    \/ \E t \in Threads : \E e \in CreatedEventsAt(now) : AllIdle /\ HandleEvent(t, e)
    \/ \E t \in Threads : EngineStep(t)

SpecCreated == Init /\ [][NextCreated]_vars

\* C35: whenever HandleEvent fires a rule, the rule's trigger type is event or
\* metric; an event rule is not fired on an event that carries only a metric
\* name, a metric rule is not fired on an event that carries only an event name
FiresOnlyOnOwnTriggerKind ==
    \A t \in Threads :
        pc[t] \in {"fire", "save", "dispatch"} =>
            LET rule == CurRule(t)
                e    == ev[t]
            IN  CASE rule.TriggerType = TriggerTypeEvent ->
                         ~(e.EventName = "" /\ e.MetricName # "")
                  [] rule.TriggerType = TriggerTypeMetric ->
                         ~(e.MetricName = "" /\ e.EventName # "")
                  [] OTHER -> FALSE

(***************************************************************************)
(* A backlog of metric samples: events whose Timestamp is not the time at  *)
(* which HandleEvent runs.                                                 *)
(***************************************************************************)
MaxReplayed == 3

\* sustained metric threshold of 2 s with a cooldown of 2 s
RuleCPUCooling ==
    [ID |-> 4, ObjectType |-> ObjectTypeSystem, TriggerType |-> TriggerTypeMetric,
     EventName |-> "", MetricName |-> MetricCPUUsage, CooldownSec |-> 2,
     Conditions |-> <<[Property |-> PropertyValue, Operator |-> OperatorGreaterThan,
                       Value |-> Str80, DurationSec |-> 2]>>,
     Actions |-> <<[Target |-> TargetBell]>>]

\* the times at which the queued samples were taken
ReplayStamps == {0, 2, 4}

ReplayedEvents ==
    { Event(ObjectTypeSystem, "", MetricCPUUsage, Props(PropertyValue, F64(85)), ts) :
        ts \in ReplayStamps }

\* HandleEvent, lines 70-76, called with a queued event
ReplayEvent(t, e) ==
    /\ Free(t)
    /\ nEvents < MaxReplayed
    /\ nEvents' = nEvents + 1
    /\ ev' = [ev EXCEPT ![t] = e]
    /\ buffers' = RecordEvent(buffers, e)
    /\ pc' = [pc EXCEPT ![t] = "snapshot"]
    /\ UNCHANGED <<busVars, extVars, now, lastCheck, nRecords, rules, cooldowns, repoRules, history,
                   snap, idx, nRefresh, matchCalls, cdSets, saveCalls, saveFails, dispCalls>>

NextReplay ==
    \/ repoRules = <<>> /\ RepoUpdate(<<RuleCPUCooling>>)
    \/ \E t \in Threads : AllIdle /\ RefreshQuery(t, TRUE)
    \/ \E t \in Threads : \E e \in ReplayedEvents : AllIdle /\ ReplayEvent(t, e)
    \/ \E t \in Threads : EngineStep(t)
    \/ Tick

SpecReplay == Init /\ [][NextReplay]_vars

\* C36: the cooldown is measured on the engine's clock, never on the event's
\* Timestamp: while the clock is below cooldownSec the rule has fired at most
\* once, whatever the timestamps of the matching events, the entry written by
\* a fire is the clock's value, and a matching event passes the cooldown check
\* exactly when the rule has no entry or its entry is cooldownSec old on the
\* clock; the sustained check of the same event ends its window at the event's
\* Timestamp
CooldownOnEngineClock ==
    /\ [](/\ now < RuleCPUCooling.CooldownSec =>
                /\ cdSets[RuleCPUCooling.ID] <= 1
                /\ dispCalls[RuleCPUCooling.ID] <= 1
          /\ \A t \in Threads :
                pc[t] \in {"cooldown", "fire", "save", "dispatch"} =>
                    IsSustained(buffers, MetricCPUUsage, OperatorGreaterThan, Str80, 2,
                                ev[t].Timestamp))
    /\ [][ /\ cooldowns' # cooldowns => cooldowns'[RuleCPUCooling.ID] = now
           /\ \A t \in Threads :
                 (pc[t] = "cooldown" /\ pc'[t] # "cooldown") =>
                     ((pc'[t] = "fire") <=>
                         (\/ RuleCPUCooling.ID \notin DOMAIN cooldowns
                          \/ now - cooldowns[RuleCPUCooling.ID] >= RuleCPUCooling.CooldownSec))
         ]_vars

\* three samples taken 2 s apart were handled within one second: the second
\* and the third matched (sustained over their own timestamps, not over the
\* clock), the rule fired once
ReplayedBacklogFiredOnce ==
    /\ AllIdle
    /\ now < RuleCPUCooling.CooldownSec
    /\ nEvents = 3
    /\ Len(buffers[MetricCPUUsage]) = 3
    /\ buffers[MetricCPUUsage][3].timestamp = 4
    /\ matchCalls[RuleCPUCooling.ID] = 2
    /\ dispCalls[RuleCPUCooling.ID] = 1
    /\ ~IsSustained(buffers, MetricCPUUsage, OperatorGreaterThan, Str80, 2, now)

\* C37: a RefreshRules call whose query fails returns with the cached rule
\* list, the cooldown map and the metric buffers as they were; a call whose
\* query succeeds changes the cached list, to the query's result and in its
\* locked assignment only, and never the cooldown map or the metric buffers
RefreshChangesOnlyRuleCache ==
    [][ /\ nRefresh' # nRefresh =>
              /\ rules' = rules /\ cooldowns' = cooldowns /\ buffers' = buffers
              /\ \A t \in Threads : pc'[t] = pc[t] \/ (pc[t] = "idle" /\ pc'[t] = "swap")
        /\ \A t \in Threads :
              (pc[t] = "swap" /\ pc'[t] # "swap") =>
                  /\ rules' = snap[t]
                  /\ cooldowns' = cooldowns /\ buffers' = buffers
        /\ rules' # rules => \E t \in Threads : pc[t] = "swap" /\ pc'[t] = "idle"
      ]_vars

\* the repository changed, the one RefreshRules call failed, and the events
\* handled around it matched and fired the rules of the previous snapshot
FailedRefreshKeptSnapshot ==
    /\ AllIdle
    /\ nRefresh = 1
    /\ rules = LoadedRules
    /\ repoRules # rules
    /\ nEvents = 2
    /\ RuleStream.ID \in DOMAIN cooldowns
    /\ matchCalls[RuleStream.ID] = 2

\* the metric sample and the event of the last evaluation
LastSample == Event(ObjectTypeSystem, "", MetricCPUUsage, lastEval.properties, now)

LastEvent == Event(ObjectTypeStream, EventStreamDisconnected, "", lastEval.properties, now)

\* C38: a metric rule matches a sample of its object type and metric exactly
\* if every condition holds, one with DurationSec > 0 by IsSustained over that
\* duration ending at the sample's timestamp, one with DurationSec = 0 on the
\* sample's properties; it matches no sample of another object type or metric;
\* an event rule decides every condition on the event's properties
MetricRuleMatchesByDuration ==
    lastEval.called =>
        /\ lastEval.metricRule <=>
              \A i \in 1..Len(lastEval.conditions) :
                  LET cond == lastEval.conditions[i]
                  IN  /\ cond.DurationSec > 0 =>
                             IsSustained(buffers, MetricCPUUsage, cond.Operator, cond.Value,
                                         cond.DurationSec, LastSample.Timestamp)
                      /\ cond.DurationSec = 0 =>
                             evaluateCondition(cond, lastEval.properties)
        /\ ~ruleMatches(EvalMetricRule(lastEval.conditions),
                        [LastSample EXCEPT !.ObjectType = ObjectTypeStream], buffers)
        /\ ~ruleMatches(EvalMetricRule(lastEval.conditions),
                        [LastSample EXCEPT !.MetricName = MetricMemoryUsage], buffers)
        /\ lastEval.eventRule <=>
              \A i \in 1..Len(lastEval.conditions) :
                  evaluateCondition(lastEval.conditions[i], lastEval.properties)

\* a condition with DurationSec 2 that the properties do not satisfy but the
\* samples of the last 2 s do: the metric rule matches, the event rule does not
SustainedDecidedByTracker ==
    /\ lastEval.called
    /\ Len(lastEval.conditions) = 1
    /\ lastEval.conditions[1].DurationSec = 2
    /\ ~evaluateCondition(lastEval.conditions[1], lastEval.properties)
    /\ lastEval.metricRule
    /\ ~lastEval.eventRule

\* C39: fire decisions are per rule.  A fire writes the cooldown entry of the
\* fired rule and of no other rule; the cooldown check of a rule reads that
\* rule's entry only; the two loaded rules, which match the same events, have
\* both matched every event either has matched, and both fired on the first one
RulesFireIndependently ==
    /\ [](AllIdle =>
            /\ matchCalls[RuleStream.ID] = matchCalls[RuleStreamShort.ID]
            /\ matchCalls[RuleStream.ID] > 0 =>
                  dispCalls[RuleStream.ID] > 0 /\ dispCalls[RuleStreamShort.ID] > 0)
    /\ [][ /\ \A id \in RuleIDs :
                 cdSets'[id] = cdSets[id] =>
                     /\ (id \in DOMAIN cooldowns') = (id \in DOMAIN cooldowns)
                     /\ id \in DOMAIN cooldowns => cooldowns'[id] = cooldowns[id]
           /\ \A t \in Threads :
                 (pc[t] = "cooldown" /\ pc'[t] # "cooldown") =>
                     LET rule == CurRule(t)
                         own  == [i \in DOMAIN cooldowns \cap {rule.ID} |-> cooldowns[i]]
                     IN  (pc'[t] = "fire") <=>
                             ~isInCooldown(own, rule.ID, rule.CooldownSec, now)
         ]_vars

\* two events one second apart matched both rules: on the second the rule
\* with the cooldown of 2 s was held back and the other rule fired again, each
\* entry being the time of that rule's own last fire
OneHeldBackOtherFired ==
    /\ AllIdle
    /\ now = 1
    /\ matchCalls[RuleStream.ID] = 2 /\ matchCalls[RuleStreamShort.ID] = 2
    /\ dispCalls[RuleStream.ID] = 1 /\ dispCalls[RuleStreamShort.ID] = 2
    /\ DOMAIN cooldowns = {RuleStream.ID, RuleStreamShort.ID}
    /\ cooldowns[RuleStream.ID] = 0
    /\ cooldowns[RuleStreamShort.ID] = 1

(***************************************************************************)
(* The bus with its worker goroutine scheduled: whenever the worker can    *)
(* take a step it eventually takes one.  Handlers return or panic, and a   *)
(* panic is recovered, so every handler invocation ends.                   *)
(***************************************************************************)
WorkerStep ==
    \/ WorkerReceive
    \/ WorkerStopSeen
    \/ WorkerReturn
    \/ dispatch
    \/ safeCall

\* handlers subscribe at start-up, as Initialize does; publishers leave the
\* timestamp to Publish
NextBusRun ==
    \/ \E kind \in HandlerKinds : nPublish = 0 /\ nStop = 0 /\ Subscribe(kind)
    \/ \E p \in Publishers : PublishCheck(p, ZeroTime)
    \/ \E p \in Publishers : PublishSend(p)
    \/ BusStop
    \/ WorkerStep

SpecBusFair == Init /\ [][NextBusRun]_vars /\ WF_vars(WorkerStep)

\* C40: once Stop has closed stopCh the worker reaches its return, whatever
\* the publishers do meanwhile; after it has returned it stays returned and
\* invokes no handler
StoppedWorkerTerminates ==
    /\ stopCh ~> (wpc = "exited")
    /\ [][wpc = "exited" => (wpc' = "exited" /\ delivered' = delivered /\ cur' = cur)]_vars

\* the worker has returned after dispatching to the end of the queue, and a
\* Publish call that passed the stop check before Stop put its event on the
\* channel after the worker had gone
WorkerExitedWhilePublishing ==
    /\ wpc = "exited"
    /\ stopCh
    /\ delivered # <<>>
    /\ eventCh # <<>>
    /\ nPublish >= 2

====
